---- MODULE Spec2Model ----
(***************************************************************************)
(* The incremental build cache of the progtest runner.                     *)
(*                                                                         *)
(* The repository holds two implementations of the cache layer:            *)
(*   - main.rs:     main_ / load_cache / prepare_target / save_cache over  *)
(*                  Cache = HashMap<PathBuf, CacheEntry>                   *)
(*   - database.rs: Database::new / build_file / save_to_file              *)
(* A behaviour exercises one of them (variable impl).                      *)
(*                                                                         *)
(* A u128 is a sequence of 32 hexadecimal digits (values 0..15), most      *)
(* significant first; a u64 is the same with 16 digits.  A string is a     *)
(* sequence of one-character strings.  Option<T> is a sequence of length   *)
(* at most one: None == <<>>, Some(x) == <<x>>.                            *)
(***************************************************************************)
EXTENDS Naturals, Sequences, FiniteSets, TLC

\* ---------------------------------------------------------------- bounds
\* number of targets on one command line
MaxTargets == 2

\* ------------------------------------------------------ program constants
\* u128: 128 bits = 32 hexadecimal digits
U128Digits == 32
\* u64 (Hasher::finish): 64 bits = 16 hexadecimal digits
U64Digits == 16
\* format!("{:032x}", ..): minimum field width
HexWidth == 32
\* u128::from_str_radix(.., 16)
Radix == 16

None == <<>>
Some(x) == <<x>>

\* ------------------------------------------------------------ u128 values
U128Zero == [i \in 1..U128Digits |-> 0]
U128Max == [i \in 1..U128Digits |-> Radix - 1]

\* n >> 4
shr4(n) == <<0>> \o SubSeq(n, 1, Len(n) - 1)

LowerHexChars == <<"0","1","2","3","4","5","6","7","8","9","a","b","c","d","e","f">>
UpperHexChars == <<"0","1","2","3","4","5","6","7","8","9","A","B","C","D","E","F">>

\* core::fmt::LowerHex for u128: emits n % 16 and divides by 16 until the
\* value is zero; at least one digit, no leading zeros
RECURSIVE lower_hex(_)
lower_hex(n) ==
    LET d == LowerHexChars[n[Len(n)] + 1]
        rest == shr4(n)
    IN  IF \A i \in 1..Len(rest) : rest[i] = 0
        THEN <<d>>
        ELSE Append(lower_hex(rest), d)

\* the `0` flag with a width: pad with '0' on the left up to the width;
\* a longer digit string is never truncated
RECURSIVE pad_zero(_, _)
pad_zero(s, width) ==
    IF Len(s) >= width THEN s ELSE pad_zero(<<"0">> \o s, width)

\* a plausible slip: format!("{:x}") without the zero-padded width
format_hex_unpadded(n) == lower_hex(n)

\* format!("{:032x}", n)
format_hex(n) == pad_zero(lower_hex(n), HexWidth)

\* char::to_digit(16): the digit value of a character, None when it has none
to_digit(c) ==
    IF \E i \in 1..Radix : LowerHexChars[i] = c
    THEN Some((CHOOSE i \in 1..Radix : LowerHexChars[i] = c) - 1)
    ELSE IF \E i \in 1..Radix : UpperHexChars[i] = c
         THEN Some((CHOOSE i \in 1..Radix : UpperHexChars[i] = c) - 1)
         ELSE None

\* the accumulation loop of from_str_radix: result = result * 16 + digit,
\* checked; None on an invalid digit or on overflow
RECURSIVE parse_digits(_, _)
parse_digits(acc, s) ==
    IF s = <<>> THEN Some(acc)
    ELSE LET d == to_digit(Head(s))
         IN  IF d = None THEN None
             ELSE IF acc[1] # 0 THEN None
             ELSE parse_digits(SubSeq(acc, 2, Len(acc)) \o d, Tail(s))

\* u128::from_str_radix(s, 16): Err (None) on the empty string, on a lone
\* sign, on an invalid digit and on overflow; one leading '+' is accepted
from_str_radix(s) ==
    IF s = <<>> THEN None
    ELSE IF Head(s) = "+"
         THEN (IF Tail(s) = <<>> THEN None ELSE parse_digits(U128Zero, Tail(s)))
         ELSE parse_digits(U128Zero, s)

\* ------------------------------------------------------------- the world
\* A path is [abs, stem, ext]: Path::is_absolute, the file stem, the extension.
SrcA == [abs |-> FALSE, stem |-> "a", ext |-> "c"]
SrcB == [abs |-> FALSE, stem |-> "b", ext |-> "c"]
TxtA == [abs |-> FALSE, stem |-> "a", ext |-> "txt"]
\* the paths a command line may name
TargetPaths == {SrcA, SrcB, TxtA}
\* the source files that exist below the root
Sources == {SrcA, SrcB}
\* the contents a source file may have
Contents == {"c0", "c1"}
\* the one content of a samples archive
ArchiveContent == "z1"

\* the first 16 bytes of the BLAKE3 XOF of a content, read little-endian
\* (hasher.finalize_xof().fill(&mut buf); u128::from_le_bytes(buf)).  The
\* digest is an uninterpreted function of the content; the table covers the
\* value zero, a value with leading zero digits and a value with the top
\* digit set.
blake3(content) ==
    CASE content = "c0" -> U128Zero
      [] content = "c1" -> [i \in 1..U128Digits |->
                               IF i < U128Digits - 2 THEN 0 ELSE (i * 7) % Radix]
      [] content = "z1" -> [i \in 1..U128Digits |-> (Radix - 1) - (i % 3)]

\* hash_file: Err (None) when the file cannot be opened or read
hash_file(read) == IF read = None THEN None ELSE Some(blake3(read[1]))

\* std::process::Command::status(): the child ran and exited with 0, ran and
\* exited otherwise (nonzero or killed), or could not be started
ExitStatuses == {"exit_0", "exit_nonzero", "spawn_error"}

\* main.rs check_status: only a failure to start the child is an error
check_status(status) == IF status = "spawn_error" THEN "Err" ELSE "Ok"

\* fs.rs check_status: a child that does not exit with 0 is an error too
fs_check_status(status) == IF status = "exit_0" THEN "Ok" ELSE "Err"

\* HashMap::insert / the value left by entry(k).or_insert(v)
insert(m, k, v) == [x \in (DOMAIN m) \cup {k} |-> IF x = k THEN v ELSE m[x]]
EmptyMap == [x \in {} |-> U128Zero]

RECURSIVE SeqsUpTo(_, _)
SeqsUpTo(S, n) ==
    IF n = 0 THEN {<<>>}
    ELSE LET shorter == SeqsUpTo(S, n - 1)
         IN  shorter \cup {Append(q, x) : q \in {r \in shorter : Len(r) = n - 1}, x \in S}

\* ------------------------------------------------------------------ state
VARIABLES
    impl,         \* which cache layer runs: "main" (main.rs) or "database" (database.rs)
    files,        \* content of every source file on disk
    out_dir,      \* whether <root>/out exists
    cache_file,   \* <root>/out/cache.json: missing, not JSON, or a JSON object
    pc,           \* position of the process: idle, load, prepare, save, command, exit
    args,         \* the parsed command line of the run
    load,         \* what load_cache / Database::new found
    cache,        \* the in-memory cache (Cache of main.rs, Database.cache of database.rs)
    next,         \* index of the next target of args.targets
    entry_paths,  \* the targets prepared successfully, in order
    compiled,     \* the g++ invocations of this run, in order
    extracted,    \* the tar invocations of this run, in order
    ran,          \* the binaries run or tested by this run, in order
    exit_code,    \* exit code of the process, once it has one
    last          \* what the latest build request saw and did

\* the test subcommand: main thread, writer thread, channel, children, pipes
VARIABLES
    corpus,       \* collect_samples' result: the samples of the target, sorted by name
    t_pc,         \* position of the main thread in subcomand_test / test_samples
    cur,          \* index in corpus of the sample test_samples works on
    sender_open,  \* whether w_sender is still alive
    queue,        \* the channel: items sent and not yet received
    writer,       \* the writer thread: what it does and the item it holds
    stdin_pipe,   \* per sample, the pipe to its child's stdin
    stdout_pipe,  \* the pipe from the current child's stdout
    child,        \* the child process of the current sample
    procs,        \* per sample, its child process: "none", "spawned", "reaped"
    child_stdout, \* the bytes read_to_end has read so far
    fixture,      \* per sample, how far its test has come
    sent,         \* the samples whose item the main thread sent, in order
    w_log,        \* the samples whose item the writer received, in order
    reported,     \* the errors test_samples reported, in order
    outcome,      \* the latest comparison: what was compared and the verdict
    diff          \* the latest diff_failed call: files written, command run

\* the samples parser and converter
VARIABLES
    collected,    \* collect_sample_files' result, the input of make_samples_string
    blob,         \* the bytes of the converted file
    s_pc,         \* position of the caller: encode, new, next, done
    inner,        \* SampleIterator.inner: the pieces of the split not yet taken
    parsed        \* the samples the iterator returned, in order

\* one call of append_hash
VARIABLES
    h_pc,         \* which option build_file folds in next: defines .. done
    h_before,     \* *prev_hash before the latest call
    h_aux,        \* what the DefaultHasher returned in the latest call
    h_hash        \* *prev_hash now

\* one call of diff_failed
VARIABLES
    d_pc,         \* position in diff_failed: write, policy, prompt, launch, done
    d_args,       \* args.diff and args.ask
    d_lines,      \* what read_line returned, in order
    d_launched,   \* the diff commands started, each with its exit status
    d_written     \* whether <expected>.actual was written

\* one call of visit_files
VARIABLES
    tree,         \* the directory tree below the walked directory
    w_cfg,        \* the visitor and its configuration
    w_pc,         \* position of visit_files: walk, done, panic
    stack,        \* the frames of visit_files_impl, the innermost last
    events,       \* the events handed to the visitor with its responses
    depth,        \* the closure's `depth`
    found,        \* the closure's `samples` map
    dups          \* the files the closure reported as duplicates

cache_vars == <<impl, files, out_dir, cache_file, pc, args, load,
                cache, next, entry_paths, compiled, extracted, ran, exit_code, last>>
test_vars == <<corpus, t_pc, cur, sender_open, queue, writer, stdin_pipe, stdout_pipe,
               child, procs, child_stdout, fixture, sent, w_log, reported, outcome,
               diff>>
samples_vars == <<collected, blob, s_pc, inner, parsed>>
hash_vars == <<h_pc, h_before, h_aux, h_hash>>
diff_vars == <<d_pc, d_args, d_lines, d_launched, d_written>>
walk_vars == <<tree, w_cfg, w_pc, stack, events, depth, found, dups>>
vars == <<cache_vars, test_vars, samples_vars, hash_vars, diff_vars, walk_vars>>

\* no test is running
TestIdle ==
    /\ corpus = <<>> /\ t_pc = "idle" /\ cur = 0 /\ sender_open = FALSE
    /\ queue = <<>> /\ writer = <<>> /\ stdin_pipe = <<>> /\ stdout_pipe = <<>>
    /\ child = <<>> /\ procs = <<>> /\ child_stdout = <<>> /\ fixture = <<>>
    /\ sent = <<>>
    /\ w_log = <<>> /\ reported = <<>> /\ outcome = <<>> /\ diff = <<>>

\* no conversion or parse is running
SamplesIdle ==
    /\ collected = <<>> /\ blob = <<>> /\ s_pc = "idle" /\ inner = <<>> /\ parsed = <<>>

not_test_vars == <<cache_vars, samples_vars, hash_vars, diff_vars, walk_vars>>

\* no fingerprint is being folded
HashIdle ==
    h_pc = "idle" /\ h_before = <<>> /\ h_aux = <<>> /\ h_hash = <<>>

\* no diff is being presented
DiffIdle ==
    /\ d_pc = "idle" /\ d_args = <<>> /\ d_lines = <<>> /\ d_launched = <<>>
    /\ d_written = FALSE

\* no directory is being walked
WalkIdle ==
    /\ tree = <<>> /\ w_cfg = <<>> /\ w_pc = "idle" /\ stack = <<>> /\ events = <<>>
    /\ depth = 0 /\ found = <<>> /\ dups = <<>>

world == <<impl, files, out_dir, cache_file>>
run_vars == <<args, load, cache, next, entry_paths, compiled, extracted, ran, last>>

\* ------------------------------------------------------------ cache file
Missing == [kind |-> "missing", map |-> EmptyMap]
Corrupt == [kind |-> "corrupt", map |-> EmptyMap]
Json(m) == [kind |-> "json", map |-> m]

\* main.rs: impl From<&CacheEntry> for SerdeCacheEntry
to_serde(entry) ==
    [source_hash |-> format_hex(entry.source_hash),
     samples_hash |-> format_hex(entry.samples_hash)]

\* main.rs: impl From<&SerdeCacheEntry> for CacheEntry; None stands for the
\* panic of unwrap()
from_serde(value) ==
    LET a == from_str_radix(value.source_hash)
        b == from_str_radix(value.samples_hash)
    IN  IF a = None \/ b = None THEN None
        ELSE Some([source_hash |-> a[1], samples_hash |-> b[1]])

\* CacheEntry::default()
DefaultEntry == [source_hash |-> U128Zero, samples_hash |-> U128Zero]

\* main.rs load_cache: Err when the file cannot be read or is not JSON of the
\* expected shape; a fingerprint that is no hexadecimal number panics
load_cache(file) ==
    IF file.kind = "missing"
    THEN [result |-> "Err", found |-> "missing", cache |-> EmptyMap]
    ELSE IF file.kind = "corrupt"
    THEN [result |-> "Err", found |-> "corrupt", cache |-> EmptyMap]
    ELSE IF \E k \in DOMAIN file.map : from_serde(file.map[k]) = None
    THEN [result |-> "panic", found |-> "badhex", cache |-> EmptyMap]
    ELSE [result |-> "Ok", found |-> "json",
          cache |-> [k \in DOMAIN file.map |-> from_serde(file.map[k])[1]]]

\* main.rs save_cache: the serialized map
save_cache(c) == Json([k \in DOMAIN c |-> to_serde(c[k])])

\* a cache file edited by hand: valid JSON, but a fingerprint that is no number
BadHexMain ==
    Json([k \in {SrcA} |-> [source_hash |-> <<"x", "y">>, samples_hash |-> <<"0">>]])

\* ------------------------------------------------------------ main.rs run
\* --args and --override-args of the command line
NoOptions == [compiler_args |-> None, override_compiler_args |-> None]
CompilerOptions ==
    {NoOptions,
     [compiler_args |-> Some("-O2"), override_compiler_args |-> None],
     [compiler_args |-> None, override_compiler_args |-> Some("-std=c99")]}

TargetLists == SeqsUpTo(TargetPaths, MaxTargets)

SingleTargets == {<<>>} \cup {<<p>> : p \in TargetPaths}

\* the command lines: build takes any target list and any options; run is
\* tried with every list, test with single targets; clean ignores targets
\* and options
MainArgs ==
    [command : {"Build"}, targets : TargetLists, options : CompilerOptions]
    \cup [command : {"Run"}, targets : TargetLists, options : {NoOptions}]
    \cup [command : {"Test"}, targets : SingleTargets, options : {NoOptions}]
    \cup [command : {"Clean"}, targets : {<<>>}, options : {NoOptions}]
NoArgs == [command |-> "none", targets |-> <<>>, options |-> NoOptions]

\* what a build request saw and did; call = FALSE: no request yet in this run
NoRequest ==
    [call |-> FALSE, source |-> SrcA, options |-> NoOptions,
     existed |-> FALSE, before |-> U128Zero, computed |-> None,
     invoked |-> 0, status |-> "none", after |-> None,
     s_computed |-> None, tar |-> "none", result |-> "none"]

\* the first two checks of prepare_target: a relative path with extension c
valid_target(source) == ~source.abs /\ source.ext = "c"

\* the fingerprint prepare_target computes for a source: hash_file(&paths.source)
source_fingerprint(read, options) == hash_file(read)

hash_always_differs(stored, computed) == TRUE
hash_never_differs(stored, computed) == FALSE
\* `entry.source_hash != source_hash` and `entry.samples_hash != samples_hash`
hash_differs(stored, computed) == stored # computed

\* main.rs compile_file: the g++ command line and the result of check_status
compile_file(source, options, status) ==
    [argv |-> [program |-> "g++",
               flags |-> (IF options.override_compiler_args = None
                          THEN <<"-std=c++11", "-Wall", "-pedantic">> ELSE <<>>)
                         \o options.compiler_args,
               source |-> source],
     result |-> check_status(status)]

\* main.rs extract_archive: the tar command line and the result of check_status
extract_archive(source, status) ==
    [argv |-> [program |-> "tar", source |-> source],
     result |-> check_status(status)]

\* main_ up to the cache load: the checks of the command line and of out/
StartRun(a) ==
    /\ args' = a
    /\ UNCHANGED <<impl, files, load, cache, next,
                   entry_paths, compiled, extracted, ran, last>>
    /\ IF a.command = "Run" /\ Len(a.targets) # 1
       THEN \* bail!("The 'run' subcommand expects a single target")
            /\ pc' = "exit" /\ exit_code' = Some(1)
            /\ UNCHANGED <<out_dir, cache_file>>
       ELSE IF a.command = "Clean"
       THEN \* fs::remove_dir_all(&out_path): an error when out/ does not exist
            /\ pc' = "exit" /\ exit_code' = Some(IF out_dir THEN 0 ELSE 1)
            /\ out_dir' = FALSE /\ cache_file' = Missing
       ELSE IF a.targets = <<>>
       THEN /\ pc' = "exit" /\ exit_code' = Some(0)
            /\ UNCHANGED <<out_dir, cache_file>>
       ELSE IF ~out_dir
       THEN \* fs::create_dir(&out_path)?
            \E created \in BOOLEAN :
                /\ out_dir' = created
                /\ pc' = IF created THEN "load" ELSE "exit"
                /\ exit_code' = IF created THEN None ELSE Some(1)
                /\ UNCHANGED cache_file
       ELSE /\ pc' = "load" /\ exit_code' = None
            /\ UNCHANGED <<out_dir, cache_file>>

\* main_: `let mut cache = load_cache(&cache_path).unwrap_or_default();`
LoadCache ==
    /\ impl = "main" /\ pc = "load"
    /\ LET r == load_cache(cache_file)
       IN  /\ load' = r.found
           /\ cache' = r.cache
           /\ IF r.result = "panic"
              THEN pc' = "exit" /\ exit_code' = Some(101)
              ELSE pc' = "prepare" /\ exit_code' = None
    /\ next' = 1
    /\ UNCHANGED <<world, args, entry_paths, compiled, extracted, ran, last>>

\* the end of one prepare_target call: flat_map keeps the Ok results
Prepared(c, result, obs, cc, ex) ==
    /\ cache' = c
    /\ entry_paths' = IF result = "Ok" THEN Append(entry_paths, obs.source)
                      ELSE entry_paths
    /\ last' = [obs EXCEPT !.call = TRUE, !.result = result,
                           !.options = args.options, !.invoked = Len(cc),
                           !.after = IF obs.source \in DOMAIN c
                                     THEN Some(c[obs.source].source_hash) ELSE None]
    /\ compiled' = compiled \o cc
    /\ extracted' = extracted \o ex
    /\ next' = next + 1
    /\ UNCHANGED <<world, pc, args, load, ran, exit_code>>

\* the samples half of prepare_target, after the build half returned Ok
PrepareSamples(c, obs, cc) ==
    LET source == obs.source
    IN  IF args.command # "Test"
        THEN Prepared(c, "Ok", obs, cc, <<>>)
        ELSE \E samples \in {None, Some(ArchiveContent)} :
            IF samples = None
            THEN \* bail!("No sample found for ..")
                 Prepared(c, "Err", obs, cc, <<>>)
            ELSE LET h == hash_file(samples)
                 IN  IF h = None
                     THEN Prepared(c, "Err", obs, cc, <<>>)
                     ELSE IF hash_differs(c[source].samples_hash, h[1])
                     THEN \E status \in ExitStatuses :
                         LET x == extract_archive(source, status)
                             c2 == [c EXCEPT ![source].samples_hash = h[1]]
                         IN  Prepared(c2, x.result,
                                      [obs EXCEPT !.s_computed = h, !.tar = status],
                                      cc, <<x.argv>>)
                     ELSE Prepared(c, "Ok", [obs EXCEPT !.s_computed = h], cc, <<>>)

\* main.rs prepare_target, called by main_ for the next target of the list
PrepareTarget ==
    /\ impl = "main" /\ pc = "prepare" /\ next <= Len(args.targets)
    /\ LET source == args.targets[next]
           obs0 == [NoRequest EXCEPT !.source = source]
       IN  IF ~valid_target(source)
           THEN Prepared(cache, "Err", obs0, <<>>, <<>>)
           ELSE
           LET \* cache.entry(source).or_default()
               c1 == IF source \in DOMAIN cache THEN cache
                     ELSE insert(cache, source, DefaultEntry)
               obs1 == [obs0 EXCEPT !.existed = (source \in DOMAIN cache),
                                    !.before = c1[source].source_hash]
           IN  \E read \in {None, Some(files[source])} :
               LET h == source_fingerprint(read, args.options)
               IN  IF h = None
                   THEN Prepared(c1, "Err", obs1, <<>>, <<>>)
                   ELSE IF hash_differs(c1[source].source_hash, h[1])
                   THEN \E status \in ExitStatuses :
                       LET c2 == [c1 EXCEPT ![source].source_hash = h[1]]
                           b == compile_file(source, args.options, status)
                           obs2 == [obs1 EXCEPT !.computed = h, !.status = status]
                       IN  IF b.result = "Err"
                           THEN Prepared(c2, "Err", obs2, <<b.argv>>, <<>>)
                           ELSE PrepareSamples(c2, obs2, <<b.argv>>)
                   ELSE PrepareSamples(c1, [obs1 EXCEPT !.computed = h], <<>>)

\* main_: `if entry_paths.len() != args.targets.len() { return Err(..) }`
CollectResults ==
    /\ impl = "main" /\ pc = "prepare" /\ next > Len(args.targets)
    /\ IF Len(entry_paths) # Len(args.targets)
       THEN pc' = "exit" /\ exit_code' = Some(1)
       ELSE pc' = "save" /\ exit_code' = None
    /\ UNCHANGED <<world, run_vars>>

\* main_: `_ = save_cache(cache, &cache_path);` the file is opened with
\* truncate, then written; either step can fail and the result is dropped
SaveCache ==
    /\ impl = "main" /\ pc = "save"
    /\ \E io \in {"ok", "open_error", "write_error"} :
        cache_file' = CASE io = "ok" -> save_cache(cache)
                        [] io = "open_error" -> cache_file
                        [] io = "write_error" -> Corrupt
    /\ pc' = "command"
    /\ UNCHANGED <<impl, files, out_dir, run_vars, exit_code>>

\* main_: `match args.command { .. }`
RunCommand ==
    /\ impl = "main" /\ pc = "command"
    /\ pc' = "exit"
    /\ CASE args.command = "Build" ->
              ran' = ran /\ exit_code' = Some(0)
         [] args.command = "Run" ->
              \* the first entry's binary is run; check_status("child", status)?
              \E status \in ExitStatuses :
                  /\ ran' = IF status = "spawn_error" THEN ran
                            ELSE Append(ran, entry_paths[1])
                  /\ exit_code' = Some(IF check_status(status) = "Ok" THEN 0 ELSE 1)
         [] args.command = "Test" ->
              \* subcomand_test tests every entry in order
              ran' = ran \o entry_paths /\ exit_code' = Some(0)
    /\ UNCHANGED <<world, args, load, cache, next, entry_paths, compiled, extracted, last>>

\* main: the process ends; the next run starts from the files on disk
Exit ==
    /\ impl = "main" /\ pc = "exit"
    /\ pc' = "idle"
    /\ args' = NoArgs /\ load' = "none" /\ cache' = EmptyMap /\ next' = 1
    /\ entry_paths' = <<>> /\ compiled' = <<>> /\ extracted' = <<>> /\ ran' = <<>>
    /\ exit_code' = None /\ last' = NoRequest
    /\ UNCHANGED world

\* -------------------------------------------------------- database.rs
\* bitwise xor and or of two hexadecimal digits, bit by bit
XorTable ==
    [a \in 0..(Radix - 1) |-> [b \in 0..(Radix - 1) |->
        ((a + b) % 2)
        + 2 * (((a \div 2) + (b \div 2)) % 2)
        + 4 * (((a \div 4) + (b \div 4)) % 2)
        + 8 * (((a \div 8) + (b \div 8)) % 2)]]
xor_digit(a, b) == XorTable[a][b]
or_digit(a, b) == a + b - (a + b - XorTable[a][b]) \div 2

\* BuildOpts: defines, compiler_args, no_default_args
NoBuildOpts == [defines |-> <<>>, compiler_args |-> None, no_default_args |-> FALSE]
BuildOptsSet ==
    {NoBuildOpts,
     [NoBuildOpts EXCEPT !.defines = <<"DEBUG=1">>],
     [NoBuildOpts EXCEPT !.compiler_args = Some("-O2")],
     [NoBuildOpts EXCEPT !.no_default_args = TRUE]}

\* DefaultHasher (SipHash with fixed keys) of a value of type T, T one of
\* Vec<String>, Option<String>, bool: an uninterpreted function to u64; the
\* table holds one fixed value per hashed value
SipHashValues ==
    <<<<10, 4, 12, 1, 2, 3, 11, 1, 6, 1, 2, 13, 13, 2, 7, 2>>,
     <<13, 1, 3, 7, 1, 12, 1, 7, 1, 4, 9, 13, 4, 3, 9, 5>>,
     <<3, 6, 11, 3, 2, 1, 6, 15, 13, 10, 14, 14, 11, 9, 7, 5>>,
     <<7, 2, 9, 15, 10, 14, 9, 2, 3, 13, 5, 10, 4, 15, 13, 1>>,
     <<2, 10, 10, 11, 15, 14, 2, 2, 8, 15, 2, 1, 9, 14, 9, 12>>,
     <<11, 0, 14, 11, 5, 3, 15, 1, 6, 9, 4, 7, 12, 12, 15, 2>>>>

hasher_index(T, value) ==
    CASE T = "Vec<String>" -> (IF value = <<>> THEN 1 ELSE 2)
      [] T = "Option<String>" -> (IF value = None THEN 3 ELSE 4)
      [] T = "bool" -> (IF value THEN 6 ELSE 5)

default_hasher(T, value) == SipHashValues[hasher_index(T, value)]

\* `hasher.finish() as u128`: zero extension
as_u128(h) == [i \in 1..(U128Digits - U64Digits) |-> 0] \o h

\* `hash << 32`: eight hexadecimal digits to the left, the top ones fall off
shl32(n) == SubSeq(n, 9, U128Digits) \o [i \in 1..8 |-> 0]

\* `hash | (hash << 32)` for every value of the hasher
Extended ==
    [k \in 1..Len(SipHashValues) |->
        LET hash == as_u128(SipHashValues[k])
            shifted == shl32(hash)
        IN  [i \in 1..U128Digits |-> or_digit(hash[i], shifted[i])]]

\* database.rs append_hash: *prev_hash ^= hash | (hash << 32)
append_hash(prev_hash, T, value) ==
    LET extended == Extended[hasher_index(T, value)]
    IN  [i \in 1..U128Digits |-> xor_digit(prev_hash[i], extended[i])]

\* the fingerprint build_file computes: hash_file, then the three options
db_fingerprint(read, opts) ==
    LET h == hash_file(read)
    IN  IF h = None THEN None
        ELSE Some(append_hash(
                      append_hash(
                          append_hash(h[1], "Vec<String>", opts.defines),
                          "Option<String>", opts.compiler_args),
                      "bool", opts.no_default_args))

\* the paths handed to build_file
DbTargets == {SrcA, TxtA}

\* the first two checks of build_file: a relative path with extension c or cpp
db_valid_target(source) == ~source.abs /\ source.ext \in {"c", "cpp"}

\* `entry.source_hash.get() != source_hash`
db_hash_differs(stored, computed) == stored # computed

\* database.rs compile_file; check_status is crate::check_status, which in
\* this tree is the one main.rs defines
db_compile_file(source, opts, status) ==
    [argv |-> [program |-> "g++",
               flags |-> (IF opts.no_default_args
                          THEN <<"-std=c++11", "-Wall", "-pedantic">> ELSE <<>>)
                         \o [i \in 1..(2 * Len(opts.defines)) |->
                                IF i % 2 = 1 THEN "-D" ELSE opts.defines[i \div 2]]
                         \o opts.compiler_args,
               source |-> source],
     result |-> check_status(status)]

\* CacheEntry::from_serialized: the fingerprint (the paths are derived)
from_serialized(source_hash) == [source_hash |-> source_hash]

\* Database::new: an empty cache when the file does not exist, Err when it is
\* not JSON of the expected shape, a panic on a fingerprint that is no number
db_new(file) ==
    IF file.kind = "missing"
    THEN [result |-> "Ok", found |-> "missing", cache |-> EmptyMap]
    ELSE IF file.kind = "corrupt"
    THEN [result |-> "Err", found |-> "corrupt", cache |-> EmptyMap]
    ELSE IF \E k \in DOMAIN file.map : from_str_radix(file.map[k]) = None
    THEN [result |-> "panic", found |-> "badhex", cache |-> EmptyMap]
    ELSE [result |-> "Ok", found |-> "json",
          cache |-> [k \in DOMAIN file.map |->
                        from_serialized(from_str_radix(file.map[k])[1])]]

\* Database::save_to_file: the serialized map
save_to_file(c) == Json([k \in DOMAIN c |-> format_hex(c[k].source_hash)])

BadHexDb == Json([k \in {SrcA} |-> <<"x", "y">>])

\* Database::new(cache_file, out_dir)
DbNew ==
    /\ impl = "database" /\ pc = "idle"
    /\ LET r == db_new(cache_file)
       IN  /\ load' = r.found
           /\ cache' = r.cache
           /\ pc' = IF r.result = "Ok" THEN "open" ELSE "exit"
           /\ exit_code' = IF r.result = "panic" THEN Some(101) ELSE None
    /\ UNCHANGED <<world, args, next, entry_paths, compiled, extracted, ran, last>>

\* the end of one build_file call
DbBuilt(c, result, obs, opts, cc) ==
    /\ cache' = c
    /\ last' = [obs EXCEPT !.call = TRUE, !.result = result, !.options = opts,
                           !.invoked = Len(cc),
                           !.after = IF obs.source \in DOMAIN c
                                     THEN Some(c[obs.source].source_hash) ELSE None]
    /\ compiled' = cc
    /\ UNCHANGED <<world, pc, args, load, next, entry_paths, extracted, ran, exit_code>>

\* Database::build_file(source_file, args)
BuildFile(source, opts) ==
    LET obs0 == [NoRequest EXCEPT !.source = source]
    IN  IF ~db_valid_target(source)
        THEN DbBuilt(cache, "Err", obs0, opts, <<>>)
        ELSE
        LET \* self.cache.entry(source).or_insert_with(|| from_serialized(source, 0, ..))
            c1 == IF source \in DOMAIN cache THEN cache
                  ELSE insert(cache, source, from_serialized(U128Zero))
            obs1 == [obs0 EXCEPT !.existed = (source \in DOMAIN cache),
                                 !.before = c1[source].source_hash]
        IN  \E read \in {None, Some(files[source])} :
            LET h == db_fingerprint(read, opts)
            IN  IF h = None
                THEN DbBuilt(c1, "Err", obs1, opts, <<>>)
                ELSE IF db_hash_differs(c1[source].source_hash, h[1])
                THEN \E status \in ExitStatuses :
                    LET c2 == [c1 EXCEPT ![source].source_hash = h[1]]
                        b == db_compile_file(source, opts, status)
                    IN  DbBuilt(c2, b.result,
                                [obs1 EXCEPT !.computed = h, !.status = status],
                                opts, <<b.argv>>)
                ELSE DbBuilt(c1, "Ok", [obs1 EXCEPT !.computed = h], opts, <<>>)

\* Database::save_to_file: fs::write creates or truncates, then writes
SaveToFile ==
    /\ impl = "database" /\ pc = "open"
    /\ \E io \in {"ok", "open_error", "write_error"} :
        cache_file' = CASE io = "ok" -> save_to_file(cache)
                        [] io = "open_error" -> cache_file
                        [] io = "write_error" -> Corrupt
    /\ UNCHANGED <<impl, files, out_dir, pc, run_vars, exit_code>>

\* the Database is dropped, or the process ended without one
DbDrop ==
    /\ impl = "database" /\ pc \in {"open", "exit"}
    /\ pc' = "idle"
    /\ load' = "none" /\ cache' = EmptyMap /\ compiled' = <<>>
    /\ exit_code' = None /\ last' = NoRequest
    /\ UNCHANGED <<world, args, next, entry_paths, extracted, ran>>

\* between two runs the user edits a source file
EditFile(p, content) ==
    /\ files[p] # content
    /\ files' = [files EXCEPT ![p] = content]
    /\ UNCHANGED <<impl, out_dir, cache_file, pc, run_vars, exit_code>>

Init ==
    /\ impl \in {"main", "database"}
    /\ files \in [Sources -> Contents]
    /\ cache_file \in {Missing, Corrupt, IF impl = "main" THEN BadHexMain ELSE BadHexDb}
    /\ out_dir \in (IF cache_file = Missing /\ impl = "main" THEN BOOLEAN ELSE {TRUE})
    /\ pc = "idle" /\ args = NoArgs /\ load = "none" /\ cache = EmptyMap /\ next = 1
    /\ entry_paths = <<>> /\ compiled = <<>> /\ extracted = <<>> /\ ran = <<>>
    /\ exit_code = None /\ last = NoRequest
    /\ TestIdle /\ SamplesIdle /\ HashIdle /\ DiffIdle /\ WalkIdle

other_vars == <<test_vars, samples_vars, hash_vars, diff_vars, walk_vars>>

Next ==
    \/ impl = "main" /\ pc = "idle" /\ (\E a \in MainArgs : StartRun(a))
          /\ UNCHANGED other_vars
    \/ LoadCache /\ UNCHANGED other_vars
    \/ PrepareTarget /\ UNCHANGED other_vars
    \/ CollectResults /\ UNCHANGED other_vars
    \/ SaveCache /\ UNCHANGED other_vars
    \/ RunCommand /\ UNCHANGED other_vars
    \/ Exit /\ UNCHANGED other_vars
    \/ DbNew /\ UNCHANGED other_vars
    \/ impl = "database" /\ pc = "open"
          /\ (\E source \in DbTargets, opts \in BuildOptsSet : BuildFile(source, opts))
          /\ UNCHANGED other_vars
    \/ SaveToFile /\ UNCHANGED other_vars
    \/ DbDrop /\ UNCHANGED other_vars
    \/ pc = "idle" /\ (\E p \in Sources, content \in Contents : EditFile(p, content))
          /\ UNCHANGED other_vars

Spec == Init /\ [][Next]_vars

\* ----------------------------------------------------------------- claims
Range(q) == {q[i] : i \in 1..Len(q)}
Failed == {"exit_nonzero", "spawn_error"}

\* the fingerprint a request for `source` with options `o` would compute now
FingerprintNow(source, o) ==
    IF impl = "main" THEN source_fingerprint(Some(files[source]), o)
    ELSE db_fingerprint(Some(files[source]), o)
OptionsOf == IF impl = "main" THEN CompilerOptions ELSE BuildOptsSet

\* C1: when the compiler fails during a build request, the stored fingerprint
\* of the source afterwards equals the one before the request, so a request
\* with the same source and options still finds the fingerprints different
StaleOnFailure ==
    (last.call /\ last.status \in Failed)
        => /\ last.after = Some(last.before)
           /\ last.after[1] # last.computed[1]

\* C2: a request whose stored fingerprint differs from the computed one
\* invokes the compiler exactly once, and after a successful build the stored
\* fingerprint is the computed one
CacheRebuild ==
    (last.call /\ last.computed # None /\ last.before # last.computed[1])
        => /\ last.invoked = 1
           /\ last.status \in ExitStatuses
           /\ (last.status = "exit_0" => last.after = last.computed)

CacheRebuildWitness ==
    /\ last.call /\ last.existed /\ last.before # U128Zero
    /\ last.computed # None /\ last.before # last.computed[1]
    /\ last.invoked = 1 /\ last.status = "exit_0" /\ last.after = last.computed

\* C3: a request whose stored fingerprint equals the computed one does not
\* invoke the compiler and leaves the stored fingerprint as it was
CacheSkip ==
    (last.call /\ last.existed /\ last.computed = Some(last.before))
        => /\ last.invoked = 0
           /\ last.status = "none"
           /\ last.after = Some(last.before)

CacheSkipWitness ==
    /\ last.call /\ last.existed /\ last.before # U128Zero
    /\ last.computed = Some(last.before)
    /\ last.invoked = 0 /\ last.result = "Ok"

\* C4: a request builds iff the cache had no entry for the source or the
\* stored fingerprint differs from the computed one
NeedsBuildIff ==
    (last.call /\ last.computed # None)
        => ((last.invoked >= 1) <=> (~last.existed \/ last.before # last.computed[1]))

\* C5: once a successful build is recorded, a request for the same content
\* with other options finds the fingerprints different, so it builds
OptionsChangeRebuilds ==
    (last.call /\ last.status = "exit_0" /\ last.result = "Ok")
        => \A o \in OptionsOf \ {last.options} :
               FingerprintNow(last.source, o)[1] # last.after[1]

\* C6: after the load found a malformed cache file nothing is built,
\* extracted, run or tested
CorruptCacheAborts ==
    load = "corrupt" => (compiled = <<>> /\ extracted = <<>> /\ ran = <<>>)

\* C7: after the load found no cache file the run goes on with an empty
\* cache, and the first request for every source builds it
MissingCacheColdStart ==
    load = "missing"
        => /\ exit_code = None => pc \in {"prepare", "save", "command", "open"}
           /\ (last.call /\ ~last.existed /\ last.computed # None) => last.invoked = 1

IsLowerHex32(str) ==
    /\ Len(str) = HexWidth
    /\ \A i \in 1..Len(str) : \E d \in 1..Radix : LowerHexChars[d] = str[i]

\* C8: save writes every fingerprint as 32 lowercase hexadecimal characters
\* and load reads the written file back to the same map
PersistRoundTrip ==
    /\ (impl = "main" /\ pc = "save")
        => LET file == save_cache(cache)
           IN  /\ \A k \in DOMAIN file.map :
                      /\ IsLowerHex32(file.map[k].source_hash)
                      /\ IsLowerHex32(file.map[k].samples_hash)
               /\ load_cache(file).result = "Ok"
               /\ load_cache(file).cache = cache
    /\ (impl = "database" /\ pc = "open")
        => LET file == save_to_file(cache)
           IN  /\ \A k \in DOMAIN file.map : IsLowerHex32(file.map[k])
               /\ db_new(file).result = "Ok"
               /\ db_new(file).cache = cache

PersistRoundTripWitness ==
    /\ impl = "main" /\ pc = "command"
    /\ cache_file = save_cache(cache)
    /\ \E k \in DOMAIN cache :
           /\ cache[k].source_hash # U128Zero /\ cache[k].source_hash[1] = 0
           /\ cache[k].samples_hash[1] # 0
    /\ \E k \in DOMAIN cache : cache[k].source_hash = U128Zero
    /\ load_cache(cache_file).cache = cache

\* C9: the cache file never holds the fingerprint of a build or of an
\* extraction that failed
NoFailedFingerprintPersisted ==
    (impl = "main" /\ pc \in {"command", "exit"} /\ last.call
     /\ cache_file.kind = "json" /\ last.source \in DOMAIN cache_file.map)
        => /\ last.status \in Failed
               => from_str_radix(cache_file.map[last.source].source_hash) # last.computed
           /\ last.tar \in Failed
               => from_str_radix(cache_file.map[last.source].samples_hash) # last.s_computed

\* C10: a tool that exits with a nonzero status makes the step an error: the
\* target is dropped and the run goes on to the other targets
NonzeroExitFailsStep ==
    (impl = "main" /\ last.call
     /\ (last.status = "exit_nonzero" \/ last.tar = "exit_nonzero"))
        => /\ last.result = "Err"
           /\ last.source \notin Range(entry_paths)
           /\ last.source \notin Range(ran)

\* C23: a run that got past the load ends a build or a test with exit code
\* 0 when every target was prepared and no compiler or tar failed, and with
\* exit code 1 otherwise
ExitCodeReflectsFailure ==
    (impl = "main" /\ pc = "exit" /\ exit_code # None
     /\ args.command \in {"Build", "Test"} /\ load \in {"missing", "corrupt", "json"})
        => /\ exit_code[1] \in {0, 1}
           /\ exit_code[1] = 0
                  => /\ Len(entry_paths) = Len(args.targets)
                     /\ last.status \notin Failed /\ last.tar \notin Failed
           /\ exit_code[1] = 1 => Len(entry_paths) # Len(args.targets)

\* C24: after the preparation of a target failed (validation, hashing,
\* compiler or tar) the run neither saves nor runs nor tests, and it ends,
\* once every target was attempted, with exit code 1
FailureEndsRunAfterAll ==
    (impl = "main" /\ last.call
     /\ (last.result = "Err" \/ last.status \in Failed \/ last.tar \in Failed))
        => /\ ran = <<>>
           /\ pc \in {"prepare", "exit"}
           /\ pc = "exit" => (next = Len(args.targets) + 1 /\ exit_code = Some(1))

DefaultFlags == <<"-std=c++11", "-Wall", "-pedantic">>
HasDefaultFlags(flags) ==
    Len(flags) >= Len(DefaultFlags) /\ SubSeq(flags, 1, Len(DefaultFlags)) = DefaultFlags
\* whether the options of the request ask for no default flags
Suppressed(options) ==
    IF impl = "main" THEN options.override_compiler_args # None
    ELSE options.no_default_args

\* C25: the compiler gets the default flags exactly when the options of the
\* request do not suppress them
DefaultFlagsUnlessSuppressed ==
    (last.call /\ last.invoked = 1)
        => (HasDefaultFlags(compiled[Len(compiled)].flags) <=> ~Suppressed(last.options))

\* no cache run is going on: the state the other subsystems leave alone
CacheIdle ==
    /\ impl = "main" /\ files = [p \in Sources |-> "c0"] /\ cache_file = Missing
    /\ out_dir = TRUE /\ pc = "idle" /\ args = NoArgs /\ load = "none"
    /\ cache = EmptyMap /\ next = 1 /\ entry_paths = <<>> /\ compiled = <<>>
    /\ extracted = <<>> /\ ran = <<>> /\ exit_code = None /\ last = NoRequest

\* ============================================================ samples.rs
\* Bytes are one-character strings, a byte string is a sequence of them.

\* samples of one converted corpus
MaxSamples == 2

NL == <<"\n">>
Dashes == <<"-", "-", "-">>
InSuffix == <<" ", "i", "n">>
OutSuffix == <<" ", "o", "u", "t">>
Whitespace == {" ", "\n", "\t", "\r"}

ends_with(buf, suffix) ==
    /\ Len(buf) >= Len(suffix)
    /\ SubSeq(buf, Len(buf) - Len(suffix) + 1, Len(buf)) = suffix

\* bstr trim_end: drops trailing whitespace
RECURSIVE trim_end(_)
trim_end(str) ==
    IF str # <<>> /\ str[Len(str)] \in Whitespace
    THEN trim_end(SubSeq(str, 1, Len(str) - 1))
    ELSE str

\* str.bytes().position(|c| c == b'\n'), zero based
position_newline(str) ==
    LET hits == {i \in 1..Len(str) : str[i] = "\n"}
    IN  IF hits = {} THEN None
        ELSE Some((CHOOSE i \in hits : \A j \in hits : i <= j) - 1)

matches_at(haystack, needle, i) ==
    /\ i + Len(needle) - 1 <= Len(haystack)
    /\ SubSeq(haystack, i, i + Len(needle) - 1) = needle

\* the pieces from `start` on, the search for the needle being at i
RECURSIVE split_from(_, _, _, _)
split_from(haystack, needle, start, i) ==
    IF i + Len(needle) - 1 > Len(haystack)
    THEN <<SubSeq(haystack, start, Len(haystack))>>
    ELSE IF matches_at(haystack, needle, i)
         THEN <<SubSeq(haystack, start, i - 1)>>
              \o split_from(haystack, needle, i + Len(needle), i + Len(needle))
         ELSE split_from(haystack, needle, start, i + 1)

\* bstr split_str: the substrings between the occurrences of the needle,
\* found left to right without overlap
split_str(haystack, needle) == split_from(haystack, needle, 1, 1)

\* SampleIterator::new: None without a newline, else the split of what
\* follows the first line by that line, newline included
SampleIterator_new(str) ==
    LET newline_index == position_newline(str)
    IN  IF newline_index = None THEN None
        ELSE LET separator == SubSeq(str, 1, newline_index[1] + 1)
                 remaining == SubSeq(str, newline_index[1] + 2, Len(str))
             IN  Some(split_str(remaining, separator))

\* SampleIterator::next: the item and the pieces left
SampleIterator_next(pieces) ==
    IF pieces = <<>> THEN [item |-> None, inner |-> <<>>]
    ELSE IF Len(pieces) = 1 THEN [item |-> None, inner |-> <<>>]
    ELSE [item |-> Some([header |-> trim_end(pieces[1]), body |-> pieces[2]]),
          inner |-> SubSeq(pieces, 3, Len(pieces))]

\* a file: whether fs::read_into can read it, and its bytes
File(bytes) == [readable |-> TRUE, bytes |-> bytes]
Unreadable == [readable |-> FALSE, bytes |-> <<>>]
SampleFiles(input, output) == [input |-> input, output |-> output]

writeln(buf, line) == buf \o line \o NL

\* fs::read_into(file, &mut buf) followed by the newline the code adds
read_into_line(buf, file) ==
    LET read == buf \o file.bytes
    IN  IF ends_with(read, NL) THEN read ELSE read \o NL

\* make_samples_string from entry i on
RECURSIVE make_samples_from(_, _, _)
make_samples_from(coll, i, buf) ==
    IF i > Len(coll) THEN [result |-> "Ok", buf |-> buf]
    ELSE LET file == coll[i].file
             sample == coll[i].sample
         IN  IF sample.input = None \/ sample.output = None
             THEN [result |-> "panic", buf |-> buf]
             ELSE LET head_in == writeln(writeln(writeln(buf, Dashes), file \o InSuffix), Dashes)
                  IN  IF ~sample.input[1].readable THEN [result |-> "Err", buf |-> head_in]
                      ELSE LET body_in == read_into_line(head_in, sample.input[1])
                               head_out == writeln(writeln(writeln(body_in, Dashes),
                                                           file \o OutSuffix), Dashes)
                           IN  IF ~sample.output[1].readable
                               THEN [result |-> "Err", buf |-> head_out]
                               ELSE make_samples_from(coll, i + 1,
                                        read_into_line(head_out, sample.output[1]))

make_samples_string(coll) == make_samples_from(coll, 1, <<>>)

\* the samples collect_sample_files can hand over: both files, one file only,
\* a file that cannot be read; the bodies are empty, lack the final newline,
\* hold several lines, a line ending in dashes, a line of dashes
BodyX == <<"x">>
BodyXLine == <<"x", "\n">>
BodyTwoLines == <<"x", "\n", "y", "\n">>
BodyDashTail == <<"x", "-", "-", "-", "\n">>
BodyDashLine == <<"-", "-", "-", "\n">>
SampleSet ==
    {SampleFiles(Some(File(<<>>)), Some(File(BodyXLine))),
     SampleFiles(Some(File(BodyTwoLines)), Some(File(BodyXLine))),
     SampleFiles(Some(File(BodyXLine)), Some(File(BodyX))),
     SampleFiles(Some(File(BodyDashTail)), Some(File(BodyXLine))),
     SampleFiles(Some(File(BodyDashLine)), Some(File(BodyXLine))),
     SampleFiles(None, Some(File(BodyXLine))),
     SampleFiles(Some(File(BodyXLine)), None),
     SampleFiles(Some(Unreadable), Some(File(BodyXLine)))}

\* the keys, in the order samples.sort_by leaves them
SampleNames == <<<<"a">>, <<"b">>, <<"c">>, <<"d">>>>

\* the sorted vectors of up to MaxSamples entries with distinct keys
Corpora ==
    UNION {[1..n -> SampleSet] : n \in 0..MaxSamples}
Collected(samples) ==
    [i \in 1..Len(samples) |-> [file |-> SampleNames[i], sample |-> samples[i]]]

Line(text) == text \o NL
Section(header, body) == Line(Dashes) \o Line(header) \o Line(Dashes) \o body
HeaderIn(name) == name \o InSuffix
HeaderOut(name) == name \o OutSuffix

\* blobs read from a converted file that make_samples_string did not write
RawBlobs ==
    {\* a body with a line that ends in the separator's text
     Section(HeaderIn(<<"a">>), Line(<<"x", "-", "-", "-">>) \o Line(<<"y">>))
         \o Section(HeaderOut(<<"a">>), Line(<<"z">>)),
     \* a header without a body at the end
     Section(HeaderIn(<<"a">>), Line(<<"x">>)) \o Section(HeaderOut(<<"a">>), Line(<<"y">>))
         \o Line(Dashes) \o Line(HeaderIn(<<"b">>)),
     \* a header that ends neither in " in" nor in " out"
     Section(<<"a">>, Line(<<"x">>)) \o Section(HeaderOut(<<"a">>), Line(<<"y">>))
         \o Section(HeaderIn(<<"b">>), Line(<<"x">>)) \o Section(HeaderOut(<<"b">>), Line(<<"y">>)),
     \* another first line
     Line(<<"x">>) \o Line(HeaderIn(<<"a">>)) \o Line(<<"x">>) \o Line(<<"y">>)
         \o Line(<<"x">>) \o Line(HeaderOut(<<"a">>)) \o Line(<<"x">>) \o Line(<<"z">>),
     \* no newline at all
     <<"x", "y">>}

MakeSamplesString ==
    /\ s_pc = "encode"
    /\ LET r == make_samples_string(collected)
       IN  /\ blob' = (IF r.result = "Ok" THEN r.buf ELSE <<>>)
           /\ s_pc' = (CASE r.result = "Ok" -> "new"
                         [] r.result = "panic" -> "panic"
                         [] r.result = "Err" -> "error")
    /\ UNCHANGED <<collected, inner, parsed, cache_vars, test_vars, hash_vars, diff_vars, walk_vars>>

IteratorNew ==
    /\ s_pc = "new"
    /\ LET it == SampleIterator_new(blob)
       IN  IF it = None
           THEN s_pc' = "done" /\ inner' = <<>>
           ELSE s_pc' = "next" /\ inner' = it[1]
    /\ UNCHANGED <<collected, blob, parsed, cache_vars, test_vars, hash_vars, diff_vars, walk_vars>>

IteratorNext ==
    /\ s_pc = "next"
    /\ LET r == SampleIterator_next(inner)
       IN  /\ inner' = r.inner
           /\ IF r.item = None
              THEN s_pc' = "done" /\ parsed' = parsed
              ELSE s_pc' = "next" /\ parsed' = Append(parsed, r.item[1])
    /\ UNCHANGED <<collected, blob, cache_vars, test_vars, hash_vars, diff_vars, walk_vars>>

InitSamples ==
    /\ CacheIdle /\ TestIdle /\ HashIdle /\ DiffIdle /\ WalkIdle
    /\ inner = <<>> /\ parsed = <<>>
    /\ \/ s_pc = "encode" /\ blob = <<>>
          /\ collected \in {Collected(samples) : samples \in Corpora}
       \/ s_pc = "new" /\ collected = <<>> /\ blob \in RawBlobs

NextSamples == MakeSamplesString \/ IteratorNew \/ IteratorNext

SpecSamples == InitSamples /\ [][NextSamples]_vars

\* ------------------------------------------------------ claims, samples
\* the sections an encoded corpus holds: per entry its input, then its output
ExpectedSections(coll) ==
    [k \in 1..(2 * Len(coll)) |->
        LET e == coll[(k + 1) \div 2]
        IN  IF k % 2 = 1
            THEN [header |-> HeaderIn(e.file), body |-> e.sample.input[1].bytes]
            ELSE [header |-> HeaderOut(e.file), body |-> e.sample.output[1].bytes]]

Complete(coll) ==
    \A i \in 1..Len(coll) :
        /\ coll[i].sample.input # None /\ coll[i].sample.output # None
        /\ coll[i].sample.input[1].readable /\ coll[i].sample.output[1].readable

Bodies(coll) ==
    {coll[i].sample.input[1].bytes : i \in 1..Len(coll)}
        \cup {coll[i].sample.output[1].bytes : i \in 1..Len(coll)}

has_separator_line(body) ==
    LET lines == split_str(body, NL)
    IN  \E i \in 1..Len(lines) : lines[i] = Dashes

contains(body, needle) == \E i \in 1..Len(body) : matches_at(body, needle, i)

\* the parse of the file make_samples_string wrote for `collected` is over
ParsedEncoded ==
    /\ s_pc = "done" /\ Complete(collected)
    /\ blob = make_samples_string(collected).buf

\* the consumer of the iterator as the specification describes it: sections
\* are taken two at a time, a pair is a fixture when its headers are
\* "<name> in" and "<name> out", anything else is one reported error
RECURSIVE pair_samples(_)
pair_samples(sections) ==
    IF sections = <<>> THEN [fixtures |-> <<>>, errors |-> 0]
    ELSE IF Len(sections) = 1 THEN [fixtures |-> <<>>, errors |-> 1]
    ELSE LET first == sections[1]
             second == sections[2]
             rest == pair_samples(SubSeq(sections, 3, Len(sections)))
             name == SubSeq(first.header, 1, Len(first.header) - Len(InSuffix))
         IN  IF ends_with(first.header, InSuffix) /\ second.header = HeaderOut(name)
             THEN [fixtures |-> <<[name |-> name, input |-> first.body,
                                   output |-> second.body]>> \o rest.fixtures,
                   errors |-> rest.errors]
             ELSE [fixtures |-> rest.fixtures, errors |-> rest.errors + 1]

\* C16: the separator is the first line of the blob, and a body without a
\* line equal to it comes back as one body: the parse of an encoded corpus
\* whose bodies end their lines and hold no line of dashes returns the bodies
BodiesReturnedIntact ==
    (ParsedEncoded
     /\ \A body \in Bodies(collected) :
            ~has_separator_line(body) /\ (body = <<>> \/ ends_with(body, NL)))
        => parsed = ExpectedSections(collected)

\* C17: the parse of an encoded corpus returns, per entry and in order, an
\* input section and an output section with the entry's name and bytes
FixtureRoundTrip ==
    (ParsedEncoded /\ \A body \in Bodies(collected) : ~contains(body, Dashes))
        => parsed = ExpectedSections(collected)

\* C18: a sample with one file only does not abort the conversion: the
\* other samples are still written
OneSidedSkippedOnly ==
    (s_pc # "encode"
     /\ \E i \in 1..Len(collected) :
            collected[i].sample.input = None \/ collected[i].sample.output = None)
        => s_pc # "panic"

\* C19: a blob with an odd number of sections, or with a header that ends
\* neither in " in" nor in " out", has an integrity error reported
OddSectionsReported ==
    (s_pc = "done" /\ SampleIterator_new(blob) # None)
        => /\ Len(SampleIterator_new(blob)[1]) % 2 = 1
               => pair_samples(parsed).errors >= 1
           /\ (\E i \in 1..Len(parsed) :
                   ~ends_with(parsed[i].header, InSuffix)
                   /\ ~ends_with(parsed[i].header, OutSuffix))
               => pair_samples(parsed).errors >= 1

\* ===================================================== main.rs, test
\* subcomand_test and test_samples: the main thread spawns one child per
\* sample, sends (input file, child stdin) to the writer thread, reads the
\* child's stdout to its end, waits for the child and compares. A pipe holds
\* a bounded number of bytes; a write to a full pipe and a read from an empty
\* pipe whose other end is open block.

\* samples of one target
MaxFixtures == 2
\* bytes the pipe to a child's stdin holds
StdinCap == 1
\* bytes the pipe from a child's stdout holds
StdoutCap == 1

TestSample(input, output) == [input |-> input, output |-> output]

ShortBytes == <<"a">>
LineBytes == <<"a", "\n">>
\* an input that does not fit the stdin pipe
LongInput == [i \in 1..(StdinCap + 1) |-> "a"]
\* an output that does not fit the stdout pipe
BurstBytes == [i \in 1..(StdoutCap + 1) |-> "a"]

\* the samples collect_samples can return: both files, one file only, an
\* input that cannot be opened, an expected output that cannot be read
TestSamples ==
    {TestSample(Some(File(LineBytes)), Some(File(LineBytes))),
     TestSample(Some(File(LongInput)), Some(File(BurstBytes))),
     TestSample(None, Some(File(ShortBytes))),
     TestSample(Some(File(ShortBytes)), None),
     TestSample(Some(Unreadable), Some(File(ShortBytes))),
     TestSample(Some(File(ShortBytes)), Some(Unreadable))}

TestCorpora == UNION {[1..n -> TestSamples] : n \in 0..MaxFixtures}

\* the tested binaries: "burst" writes all its output and only then reads
\* its stdin to the end; "cat" copies stdin to stdout; "print" writes its
\* output and exits without reading
Programs ==
    {[kind |-> "burst", out |-> BurstBytes],
     [kind |-> "cat", out |-> <<>>],
     [kind |-> "print", out |-> ShortBytes]}

\* how a process ends
ChildStatuses == {"exit_0", "exit_nonzero", "signal"}

ClosedPipe == [buf |-> <<>>, wopen |-> FALSE, ropen |-> FALSE]
OpenPipe == [buf |-> <<>>, wopen |-> TRUE, ropen |-> TRUE]

\* the bytes a write of `bytes` to a pipe with `cap` bytes of room moves
chunk(pipe, cap, bytes) ==
    IF cap - Len(pipe.buf) >= Len(bytes) THEN Len(bytes) ELSE cap - Len(pipe.buf)

\* mpsc recv on a channel that holds items, taken last first (mutant)
recv_lifo(q) == [item |-> q[Len(q)], rest |-> SubSeq(q, 1, Len(q) - 1)]
\* mpsc recv on a channel that holds items: the oldest one
recv(q) == [item |-> Head(q), rest |-> Tail(q)]

\* recv fails as soon as the sender is gone (mutant)
disconnected_at_once(q, open) == ~open
\* mpsc recv returns Err: no item is left and the sender is gone
disconnected(q, open) == q = <<>> /\ ~open

\* the handle stays open after the copy (mutant)
keep_stdin(pipe) == pipe
\* end of the loop body: (file, stdin) go out of scope, stdin is closed
drop_stdin(pipe) == [pipe EXCEPT !.wopen = FALSE]

\* read returns 0 whenever the pipe is empty (mutant)
empty_is_eof(pipe) == pipe.buf = <<>>
\* read_to_end sees the end of the stream: nothing buffered, no writer left
end_of_stream(pipe) == pipe.buf = <<>> /\ ~pipe.wopen

\* comparison after trimming trailing whitespace (mutant)
trimmed_differ(actual, expected) == trim_end(actual) # trim_end(expected)
\* child_stdout != expected
outputs_differ(actual, expected) == actual # expected

\* --------------------------------------------------------- diff_failed
InputPath(i) == [sample |-> i, file |-> <<"in.txt">>]
OutputPath(i) == [sample |-> i, file |-> <<"out.txt">>]
append_filename(path, append) == [path EXCEPT !.file = path.file \o <<append>>]

RECURSIVE trim_start(_)
trim_start(str) ==
    IF str # <<>> /\ str[1] \in Whitespace THEN trim_start(Tail(str)) ELSE str

\* what stdin().read_line gives the prompt, call after call: None is an
\* error, Some(line) a line; every sequence ends in an answer that decides
PromptAnswers ==
    {<<None>>,
     <<Some(<<"\n">>)>>,
     <<Some(<<"y", "\n">>)>>,
     <<Some(<<" ", "N", "o", "\n">>)>>,
     <<Some(<<"q", "\n">>), Some(<<"Y", "\n">>)>>,
     <<Some(<<"q", "\n">>), Some(<<"n", "\n">>)>>}

\* no trim_start: the first character of the line as typed
first_char_untrimmed(line) == IF line = <<>> THEN None ELSE Some(line[1])
\* line.trim_start().chars().next()
first_char(line) ==
    LET t == trim_start(line) IN IF t = <<>> THEN None ELSE Some(t[1])

\* the match on the first character: break true, break false, or go round
decide(line) ==
    LET c == first_char(line)
    IN  IF c = None THEN "launch"
        ELSE IF c[1] \in {"Y", "y"} THEN "launch"
        ELSE IF c[1] \in {"N", "n"} THEN "skip"
        ELSE "again"

\* the "View diff?" loop
RECURSIVE prompt(_)
prompt(answers) ==
    IF Head(answers) = None THEN FALSE
    ELSE LET d == decide(Head(answers)[1])
         IN  IF d = "again" THEN prompt(Tail(answers)) ELSE d = "launch"

\* No asks first, as Yes does
policy_ask_first(ask) == IF ask = "Skip" THEN "done" ELSE "prompt"
\* `match args.ask`: where diff_failed goes on
policy(ask) ==
    CASE ask = "Skip" -> "done"
      [] ask = "No" -> "launch"
      [] ask = "Yes" -> "prompt"

DiffArgs == [diff : {None, Some("diff")}, ask : {"Skip", "No", "Yes"}]

\* what the terminal answers: read only when diff_failed gets to the prompt
StdinLines(dargs, write_ok) ==
    IF write_ok /\ dargs.diff # None /\ dargs.ask = "Yes" THEN PromptAnswers
    ELSE {<<None>>}

\* diff_failed(expected, actual, args): the files it writes and the command
\* it runs, if any
diff_failed(expected, actual, dargs, write_ok, answers) ==
    LET save == append_filename(expected, ".actual")
    IN  IF ~write_ok THEN [written |-> {}, command |-> None]
        ELSE LET should_diff ==
                     /\ dargs.diff # None
                     /\ CASE dargs.ask = "Skip" -> FALSE
                          [] dargs.ask = "No" -> TRUE
                          [] dargs.ask = "Yes" -> prompt(answers)
             IN  [written |-> {[path |-> save, bytes |-> actual]},
                  command |->
                      IF should_diff
                      THEN Some([program |-> "sh", arg |-> dargs.diff[1],
                                 env |-> {[var |-> "EXPECTED", path |-> expected],
                                          [var |-> "ACTUAL", path |-> save]}])
                      ELSE None]

\* ---------------------------------------------------------- main thread
NoWriterItem == [state |-> "recv", fix |-> 0, rest |-> <<>>]

\* start of test_samples for the next sample, up to the spawn; after the
\* last sample the loop ends
BeginSample ==
    /\ t_pc = "loop"
    /\ UNCHANGED <<corpus, sender_open, queue, writer, sent, w_log, child_stdout>>
    /\ IF cur = Len(corpus)
       THEN /\ t_pc' = "drop"
            /\ UNCHANGED <<cur, fixture, reported, outcome, diff, child, procs,
                           stdin_pipe, stdout_pipe>>
       ELSE LET i == cur + 1
                sample == corpus[i]
            IN  /\ cur' = i
                /\ outcome' = None /\ diff' = None
                /\ IF sample.input = None \/ sample.output = None
                   THEN /\ reported' = Append(reported,
                                [fix |-> i, error |-> IF sample.input = None
                                                      THEN "missing input"
                                                      ELSE "missing output"])
                        /\ fixture' = [fixture EXCEPT ![i] = "skipped"]
                        /\ t_pc' = "loop"
                        /\ child' = None
                        /\ UNCHANGED <<procs, stdin_pipe, stdout_pipe>>
                   ELSE \/ \* spawn fails
                           /\ reported' = Append(reported, [fix |-> i, error |-> "spawn"])
                           /\ fixture' = [fixture EXCEPT ![i] = "error"]
                           /\ t_pc' = "loop"
                           /\ child' = None
                           /\ UNCHANGED <<procs, stdin_pipe, stdout_pipe>>
                        \/ \E program \in Programs :
                               /\ child' = Some([kind |-> program.kind, out |-> program.out,
                                                 written |-> <<>>, state |-> "running",
                                                 status |-> "none"])
                               /\ stdin_pipe' = [stdin_pipe EXCEPT ![i] = OpenPipe]
                               /\ stdout_pipe' = OpenPipe
                               /\ procs' = [procs EXCEPT ![i] = "spawned"]
                               /\ fixture' = [fixture EXCEPT ![i] = "spawned"]
                               /\ t_pc' = "send"
                               /\ UNCHANGED reported

\* fs::open(&input)? and w_sender.send((file, stdin))
SendInput ==
    /\ t_pc = "send"
    /\ UNCHANGED procs
    /\ UNCHANGED <<corpus, cur, sender_open, writer, w_log, outcome, diff, child_stdout>>
    /\ LET input == corpus[cur].input[1]
       IN  IF ~input.readable
           THEN \* the error return drops stdin, stdout and the Child: the
                \* child is left to itself with both pipes closed on this side
                /\ reported' = Append(reported, [fix |-> cur, error |-> "open input"])
                /\ fixture' = [fixture EXCEPT ![cur] = "error"]
                /\ stdin_pipe' = [stdin_pipe EXCEPT ![cur] = ClosedPipe]
                /\ stdout_pipe' = ClosedPipe
                /\ child' = None
                /\ t_pc' = "loop"
                /\ UNCHANGED <<queue, sent>>
           ELSE /\ queue' = Append(queue, [fix |-> cur, file |-> input.bytes])
                /\ sent' = Append(sent, cur)
                /\ fixture' = [fixture EXCEPT ![cur] = "queued"]
                /\ t_pc' = "read"
                /\ UNCHANGED <<reported, stdin_pipe, stdout_pipe, child>>

\* read_to_end(&mut stdout, &mut child_stdout): one read call
ReadStdout ==
    /\ t_pc = "read"
    /\ UNCHANGED procs
    /\ UNCHANGED <<corpus, cur, sender_open, queue, writer, sent, w_log, reported,
                   outcome, diff, child, stdin_pipe>>
    /\ IF end_of_stream(stdout_pipe)
       THEN /\ t_pc' = "wait"
            /\ fixture' = [fixture EXCEPT ![cur] = "captured"]
            /\ UNCHANGED <<stdout_pipe, child_stdout>>
       ELSE /\ stdout_pipe.buf # <<>>
            /\ child_stdout' = child_stdout \o stdout_pipe.buf
            /\ stdout_pipe' = [stdout_pipe EXCEPT !.buf = <<>>]
            /\ UNCHANGED <<t_pc, fixture>>

\* _ = child.wait()
WaitChild ==
    /\ t_pc = "wait"
    /\ child[1].state = "exited"
    /\ t_pc' = "compare"
    /\ fixture' = [fixture EXCEPT ![cur] = "waited"]
    /\ procs' = [procs EXCEPT ![cur] = "reaped"]
    /\ UNCHANGED <<corpus, cur, sender_open, queue, writer, sent, w_log, reported,
                   outcome, diff, child, stdin_pipe, stdout_pipe, child_stdout>>

\* fs::read(output)?, the comparison and, on a difference, diff_failed
Compare ==
    /\ t_pc = "compare"
    /\ UNCHANGED procs
    /\ UNCHANGED <<corpus, cur, sender_open, queue, writer, sent, w_log, child,
                   stdin_pipe>>
    /\ stdout_pipe' = ClosedPipe
    /\ child_stdout' = <<>>
    /\ t_pc' = "loop"
    /\ LET output == corpus[cur].output[1]
       IN  IF ~output.readable
           THEN /\ reported' = Append(reported, [fix |-> cur, error |-> "read output"])
                /\ fixture' = [fixture EXCEPT ![cur] = "error"]
                /\ UNCHANGED <<outcome, diff>>
           ELSE LET differ == outputs_differ(child_stdout, output.bytes)
                IN  /\ outcome' = Some([fix |-> cur, actual |-> child_stdout,
                                        expected |-> output.bytes,
                                        status |-> child[1].status,
                                        verdict |-> IF differ THEN "Mismatch" ELSE "Match"])
                    /\ fixture' = [fixture EXCEPT ![cur] = IF differ THEN "mismatch"
                                                           ELSE "matched"]
                    /\ UNCHANGED reported
                    /\ IF differ
                       THEN \E dargs \in DiffArgs, write_ok \in BOOLEAN :
                                \E answers \in StdinLines(dargs, write_ok) :
                                    diff' = Some(diff_failed(OutputPath(cur), child_stdout,
                                                             dargs, write_ok, answers))
                       ELSE diff' = None

\* drop(w_sender)
DropSender ==
    /\ t_pc = "drop"
    /\ sender_open' = FALSE
    /\ t_pc' = "join"
    /\ UNCHANGED procs
    /\ UNCHANGED <<corpus, cur, queue, writer, sent, w_log, reported, outcome, diff,
                   child, stdin_pipe, stdout_pipe, child_stdout, fixture>>

\* _ = join.join()
JoinWriter ==
    /\ t_pc = "join"
    /\ writer.state = "exited"
    /\ t_pc' = "done"
    /\ UNCHANGED procs
    /\ UNCHANGED <<corpus, cur, sender_open, queue, writer, sent, w_log, reported,
                   outcome, diff, child, stdin_pipe, stdout_pipe, child_stdout, fixture>>

\* -------------------------------------------------------- writer thread
\* the loop left when the copy fails
after_copy_fatal(result) ==
    IF result = "Err" THEN [NoWriterItem EXCEPT !.state = "exited"] ELSE NoWriterItem
\* the writer when io::copy has returned: an Err is reported and the loop
\* goes on to the next recv like after an Ok
after_copy(result) == NoWriterItem

\* w_receiver.recv(): the next item, or the end of the loop
WriterRecv ==
    /\ writer.state = "recv"
    /\ IF disconnected(queue, sender_open)
       THEN /\ writer' = [writer EXCEPT !.state = "exited"]
            /\ UNCHANGED <<queue, w_log>>
       ELSE /\ queue # <<>>
            /\ LET r == recv(queue)
               IN  /\ queue' = r.rest
                   /\ writer' = [state |-> "copy", fix |-> r.item.fix, rest |-> r.item.file]
                   /\ w_log' = Append(w_log, r.item.fix)
    /\ UNCHANGED procs
    /\ UNCHANGED <<corpus, t_pc, cur, sender_open, sent, reported, outcome, diff,
                   child, stdin_pipe, stdout_pipe, child_stdout, fixture>>

\* std::io::copy(&mut file, &mut stdin): one write call, or its end; the
\* item is dropped when the copy returns
WriterCopy ==
    /\ writer.state = "copy"
    /\ LET i == writer.fix
           pipe == stdin_pipe[i]
           n == chunk(pipe, StdinCap, writer.rest)
       IN  IF writer.rest = <<>>
           THEN \* the file is at its end: Ok
                /\ stdin_pipe' = [stdin_pipe EXCEPT ![i] = drop_stdin(pipe)]
                /\ writer' = after_copy("Ok")
                /\ UNCHANGED reported
           ELSE IF ~pipe.ropen
           THEN \* EPIPE: the child is gone
                /\ reported' = Append(reported, [fix |-> i, error |-> "write stdin"])
                /\ stdin_pipe' = [stdin_pipe EXCEPT ![i] = drop_stdin(pipe)]
                /\ writer' = after_copy("Err")
           ELSE /\ n > 0
                /\ stdin_pipe' = [stdin_pipe EXCEPT
                                     ![i].buf = pipe.buf \o SubSeq(writer.rest, 1, n)]
                /\ writer' = [writer EXCEPT !.rest = SubSeq(writer.rest, n + 1,
                                                            Len(writer.rest))]
                /\ UNCHANGED reported
    /\ UNCHANGED procs
    /\ UNCHANGED <<corpus, t_pc, cur, sender_open, queue, sent, w_log, outcome, diff,
                   child, stdout_pipe, child_stdout, fixture>>

\* ---------------------------------------------------------------- child
Running == child # None /\ child[1].state = "running"

\* the child writes to its stdout what fits
ChildWrite ==
    /\ Running
    /\ child[1].out # <<>>
    /\ LET n == chunk(stdout_pipe, StdoutCap, child[1].out)
           bytes == SubSeq(child[1].out, 1, n)
       IN  /\ n > 0
           /\ stdout_pipe' = [stdout_pipe EXCEPT !.buf = stdout_pipe.buf \o bytes]
           /\ child' = Some([child[1] EXCEPT
                                !.out = SubSeq(child[1].out, n + 1, Len(child[1].out)),
                                !.written = child[1].written \o bytes])
    /\ UNCHANGED procs
    /\ UNCHANGED <<corpus, t_pc, cur, sender_open, queue, writer, sent, w_log, reported,
                   outcome, diff, stdin_pipe, child_stdout, fixture>>

\* the child reads from its stdin what is there; cat will write it out
ChildRead ==
    /\ Running
    /\ child[1].kind \in {"burst", "cat"}
    /\ child[1].out = <<>>
    /\ stdin_pipe[cur].buf # <<>>
    /\ stdin_pipe' = [stdin_pipe EXCEPT ![cur].buf = <<>>]
    /\ child' = IF child[1].kind = "cat"
                THEN Some([child[1] EXCEPT !.out = stdin_pipe[cur].buf])
                ELSE child
    /\ UNCHANGED procs
    /\ UNCHANGED <<corpus, t_pc, cur, sender_open, queue, writer, sent, w_log, reported,
                   outcome, diff, stdout_pipe, child_stdout, fixture>>

\* the child ends: print after its output, burst and cat at the end of
\* their stdin; its ends of both pipes are closed
ChildExit ==
    /\ Running
    /\ child[1].out = <<>>
    /\ \/ child[1].kind = "print"
       \/ stdin_pipe[cur].buf = <<>> /\ ~stdin_pipe[cur].wopen
    /\ \E status \in ChildStatuses :
           child' = Some([child[1] EXCEPT !.state = "exited", !.status = status])
    /\ stdout_pipe' = [stdout_pipe EXCEPT !.wopen = FALSE]
    /\ stdin_pipe' = [stdin_pipe EXCEPT ![cur] = [@ EXCEPT !.buf = <<>>, !.ropen = FALSE]]
    /\ UNCHANGED procs
    /\ UNCHANGED <<corpus, t_pc, cur, sender_open, queue, writer, sent, w_log, reported,
                   outcome, diff, child_stdout, fixture>>

\* ------------------------------------------------------- specification
InitTest ==
    /\ CacheIdle /\ SamplesIdle /\ HashIdle /\ DiffIdle /\ WalkIdle
    /\ corpus \in TestCorpora
    /\ t_pc = "loop" /\ cur = 0
    /\ sender_open = TRUE /\ queue = <<>> /\ writer = NoWriterItem
    /\ stdin_pipe = [i \in 1..Len(corpus) |-> ClosedPipe]
    /\ stdout_pipe = ClosedPipe
    /\ child = None /\ child_stdout = <<>>
    /\ procs = [i \in 1..Len(corpus) |-> "none"]
    /\ fixture = [i \in 1..Len(corpus) |-> "none"]
    /\ sent = <<>> /\ w_log = <<>> /\ reported = <<>>
    /\ outcome = None /\ diff = None

MainStep ==
    (BeginSample \/ SendInput \/ ReadStdout \/ WaitChild \/ Compare \/ DropSender
        \/ JoinWriter)
    /\ UNCHANGED not_test_vars
WriterStep == (WriterRecv \/ WriterCopy) /\ UNCHANGED not_test_vars
ChildStep == (ChildWrite \/ ChildRead \/ ChildExit) /\ UNCHANGED not_test_vars

NextTest ==
    \/ BeginSample /\ UNCHANGED not_test_vars
    \/ SendInput /\ UNCHANGED not_test_vars
    \/ ReadStdout /\ UNCHANGED not_test_vars
    \/ WaitChild /\ UNCHANGED not_test_vars
    \/ Compare /\ UNCHANGED not_test_vars
    \/ DropSender /\ UNCHANGED not_test_vars
    \/ JoinWriter /\ UNCHANGED not_test_vars
    \/ WriterRecv /\ UNCHANGED not_test_vars
    \/ WriterCopy /\ UNCHANGED not_test_vars
    \/ ChildWrite /\ UNCHANGED not_test_vars
    \/ ChildRead /\ UNCHANGED not_test_vars
    \/ ChildExit /\ UNCHANGED not_test_vars

SpecTest == InitTest /\ [][NextTest]_vars

\* every thread and the child get to run
SpecTestFair ==
    SpecTest /\ WF_vars(MainStep) /\ WF_vars(WriterStep) /\ WF_vars(ChildStep)

\* --------------------------------------------------------- claims, test
InProgress == {"spawned", "queued", "captured", "waited"}
Finished == {"skipped", "error", "matched", "mismatch"}
BurstInProgress ==
    /\ child # None /\ child[1].kind = "burst"
    /\ cur >= 1 /\ fixture[cur] \in InProgress

\* C11: while the test of a child that writes more than the stdout pipe
\* holds before it reads its stdin is in progress, the main thread, the
\* writer or the child can take a step, whatever the sizes; and a finished
\* test subcommand has finished every sample
NoPipeDeadlock ==
    /\ BurstInProgress => ENABLED NextTest
    /\ t_pc = "done" => \A i \in 1..Len(corpus) : fixture[i] \in Finished

\* the writer and the child are both stopped by a full pipe, only the main
\* thread can go on
NoPipeDeadlockWitness ==
    /\ BurstInProgress /\ t_pc = "read"
    /\ child[1].out # <<>> /\ Len(stdout_pipe.buf) = StdoutCap
    /\ writer.state = "copy" /\ writer.fix = cur /\ writer.rest # <<>>
    /\ Len(stdin_pipe[cur].buf) = StdinCap

\* C12: the items leave the channel in the order they were sent, and the
\* writer holds an item only when the stdin of every item it received
\* before is closed, that of every item still queued untouched
WriterFifo ==
    /\ w_log \o [k \in 1..Len(queue) |-> queue[k].fix] = sent
    /\ \A k \in 1..Len(w_log) :
           (k < Len(w_log) \/ writer.state # "copy") => ~stdin_pipe[w_log[k]].wopen
    /\ writer.state = "copy" => writer.fix = w_log[Len(w_log)]
    /\ \A k \in 1..Len(queue) : stdin_pipe[queue[k].fix].buf = <<>>

WriterFifoWitness ==
    /\ w_log = <<1, 2>> /\ sent = <<1, 2>>
    /\ writer.state = "copy" /\ writer.fix = 2
    /\ ~stdin_pipe[1].wopen /\ stdin_pipe[2].wopen

\* the steps of one sample, in the order of test_samples
StepOrder ==
    {<<"none", "skipped">>, <<"none", "error">>, <<"none", "spawned">>,
     <<"spawned", "error">>, <<"spawned", "queued">>, <<"queued", "captured">>,
     <<"captured", "waited">>, <<"waited", "error">>, <<"waited", "matched">>,
     <<"waited", "mismatch">>}

Drained ==
    /\ child_stdout = child[1].written
    /\ stdout_pipe.buf = <<>> /\ ~stdout_pipe.wopen

OneAtATime ==
    /\ Cardinality({i \in 1..Len(corpus) : fixture[i] \in InProgress}) <= 1
    /\ \A i \in 1..Len(corpus) :
           /\ i < cur => fixture[i] \in Finished
           /\ i > cur => fixture[i] = "none"
    /\ \A k \in 1..Len(sent) :
           sent[k] <= cur /\ (sent[k] < cur => fixture[sent[k]] \in Finished)
    /\ (cur >= 1 /\ fixture[cur] \in {"captured", "waited"}) => Drained
    /\ (cur >= 1 /\ fixture[cur] = "waited") => child[1].state = "exited"
    /\ outcome # None
           => /\ outcome[1].fix = cur
              /\ child[1].state = "exited"
              /\ outcome[1].actual = child[1].written

VerdictByBytes ==
    outcome # None
        => /\ outcome[1].verdict = "Match" <=> outcome[1].actual = outcome[1].expected
           /\ outcome[1].verdict \in {"Match", "Mismatch"}
           /\ outcome[1].status \in ChildStatuses

VerdictByBytesWitness ==
    /\ outcome # None /\ outcome[1].status = "signal" /\ outcome[1].verdict = "Match"
    /\ outcome[1].actual # <<>>

\* C15: once the test subcommand is over the writer has ended and has
\* received every item that was sent; and from the close of the sender the
\* join returns
WriterTeardown ==
    /\ [](t_pc = "done" => (writer.state = "exited" /\ queue = <<>> /\ w_log = sent))
    /\ (t_pc = "drop" ~> t_pc = "done")

WriterTeardownWitness ==
    /\ ~sender_open /\ t_pc = "join"
    /\ queue # <<>> /\ writer.state = "copy"

\* C20: after a mismatch the input, the expected and the actual bytes are
\* each in a file, and a diff command that runs has INPUT, EXPECTED and
\* ACTUAL set to those files
MismatchArtifacts ==
    (outcome # None /\ outcome[1].verdict = "Mismatch"
     /\ diff # None /\ diff[1].written # {})
        => LET o == outcome[1]
               d == diff[1]
               disk == {[path |-> InputPath(o.fix), bytes |-> corpus[o.fix].input[1].bytes],
                        [path |-> OutputPath(o.fix), bytes |-> o.expected]}
                           \cup d.written
               bytes_of == [v \in {"INPUT", "EXPECTED", "ACTUAL"} |->
                               CASE v = "INPUT" -> corpus[o.fix].input[1].bytes
                                 [] v = "EXPECTED" -> o.expected
                                 [] v = "ACTUAL" -> o.actual]
           IN  /\ \A v \in DOMAIN bytes_of : \E f \in disk : f.bytes = bytes_of[v]
               /\ d.command # None
                      => \A v \in DOMAIN bytes_of :
                             \E e \in d.command[1].env :
                                 /\ e.var = v
                                 /\ \E f \in disk : f.path = e.path /\ f.bytes = bytes_of[v]

\* ======================================================== append_hash
\* the fingerprints build_file starts from
HashBases ==
    {blake3(c) : c \in Contents \cup {ArchiveContent}}
        \cup {U128Zero, U128Max}
        \cup {Extended[k] : k \in 1..Len(SipHashValues)}

\* the three append_hash calls of build_file, in order, with the values of
\* the option each of them hashes
FoldOrder == <<"defines", "compiler_args", "no_default_args", "done">>
FoldType(step) ==
    CASE step = "defines" -> "Vec<String>"
      [] step = "compiler_args" -> "Option<String>"
      [] step = "no_default_args" -> "bool"
FoldValues(step) == {o[step] : o \in BuildOptsSet}
FoldNext(step) == FoldOrder[(CHOOSE i \in 1..Len(FoldOrder) : FoldOrder[i] = step) + 1]

\* append_hash(&mut source_hash, &args.<option>)
AppendHash ==
    /\ h_pc \in {"defines", "compiler_args", "no_default_args"}
    /\ \E value \in FoldValues(h_pc) :
           /\ h_before' = h_hash
           /\ h_aux' = default_hasher(FoldType(h_pc), value)
           /\ h_hash' = append_hash(h_hash, FoldType(h_pc), value)
    /\ h_pc' = FoldNext(h_pc)
    /\ UNCHANGED <<cache_vars, test_vars, samples_vars, diff_vars, walk_vars>>

InitHash ==
    /\ CacheIdle /\ TestIdle /\ SamplesIdle /\ DiffIdle /\ WalkIdle
    /\ h_pc = "defines" /\ h_hash \in HashBases /\ h_before = <<>> /\ h_aux = <<>>

NextHash == AppendHash

SpecHash == InitHash /\ [][NextHash]_vars

xor128(a, b) == [i \in 1..U128Digits |-> xor_digit(a[i], b[i])]

\* C26: append_hash xors into the fingerprint the 64-bit hash of the value
\* written twice, once in each 64-bit half; and another 64-bit hash gives,
\* from the same fingerprint, another result
FoldInReplicates ==
    h_aux # <<>>
        => /\ h_hash = xor128(h_before, h_aux \o h_aux)
           /\ \A k \in 1..Len(SipHashValues) :
                  SipHashValues[k] # h_aux => xor128(h_before, Extended[k]) # h_hash

\* ================================================ diff_failed, step by step
MaxReads == 3

\* what the user types at the prompt; <<>> is the end of the input
TerminalLines ==
    {<<>>, <<"\n">>, <<"y", "\n">>, <<"Y", "e", "s", "\n">>, <<"n", "\n">>,
     <<"N", "o", "\n">>, <<" ", "n", "\n">>, <<" ", "\n">>, <<"q", "\n">>,
     <<" ", "q", "\n">>}
\* the results of read_line, None for Err
Reads == {None} \cup {Some(l) : l \in TerminalLines}

\* fs::write(&save, actual)?, `let Some(diff) = &args.diff else return`, and
\* the match on args.ask
DiffWrite ==
    /\ d_pc = "write"
    /\ \E ok \in BOOLEAN :
           /\ d_written' = ok
           /\ d_pc' = IF ~ok \/ d_args.diff = None THEN "done" ELSE policy(d_args.ask)
    /\ UNCHANGED <<d_args, d_lines, d_launched>>

\* one round of the loop: eprint!, read_line, match
DiffPrompt ==
    /\ d_pc = "prompt"
    /\ \E r \in Reads :
           /\ IF r = None THEN TRUE
              ELSE decide(r[1]) = "again" => Len(d_lines) + 1 < MaxReads
           /\ d_lines' = Append(d_lines, r)
           /\ d_pc' = IF r = None THEN "done"
                      ELSE CASE decide(r[1]) = "launch" -> "launch"
                             [] decide(r[1]) = "skip" -> "done"
                             [] decide(r[1]) = "again" -> "prompt"
    /\ UNCHANGED <<d_args, d_launched, d_written>>

\* `sh -c <diff>` is run and its status dropped
DiffLaunch ==
    /\ d_pc = "launch"
    /\ \E status \in ExitStatuses :
           d_launched' = Append(d_launched, [program |-> "sh", arg |-> d_args.diff[1],
                                             status |-> status])
    /\ d_pc' = "done"
    /\ UNCHANGED <<d_args, d_lines, d_written>>

InitDiff ==
    /\ CacheIdle /\ TestIdle /\ SamplesIdle /\ HashIdle /\ WalkIdle
    /\ d_pc = "write" /\ d_args \in DiffArgs
    /\ d_lines = <<>> /\ d_launched = <<>> /\ d_written = FALSE

not_diff_vars == <<cache_vars, test_vars, samples_vars, hash_vars, walk_vars>>

NextDiff ==
    \/ DiffWrite /\ UNCHANGED not_diff_vars
    \/ DiffPrompt /\ UNCHANGED not_diff_vars
    \/ DiffLaunch /\ UNCHANGED not_diff_vars

SpecDiff == InitDiff /\ [][NextDiff]_vars

\* C21 as stated: with Skip nothing is read and nothing launched, with No
\* the diff command is launched at every mismatch and nothing is read
PolicyOnEveryMismatch ==
    d_pc = "done"
        => /\ d_args.ask = "Skip" => (d_lines = <<>> /\ d_launched = <<>>)
           /\ d_args.ask = "No" => (d_lines = <<>> /\ Len(d_launched) = 1)

\* C21: with Skip nothing is read from the terminal and nothing is launched;
\* with No nothing is read and the diff command is launched once whenever
\* one is configured and the actual output was written; without a command
\* or without the written file nothing is launched
PolicyWhenConfigured ==
    /\ d_args.ask \in {"Skip", "No"} => d_lines = <<>>
    /\ d_args.ask = "Skip" => (d_launched = <<>> /\ d_pc # "launch")
    /\ (d_pc = "done" /\ d_args.ask = "No" /\ d_args.diff # None /\ d_written)
           => Len(d_launched) = 1
    /\ (d_args.diff = None \/ (d_pc = "done" /\ ~d_written)) => d_launched = <<>>

PolicyWhenConfiguredWitness ==
    /\ d_pc = "done" /\ d_args.ask = "No" /\ d_args.diff # None /\ d_written
    /\ d_lines = <<>> /\ Len(d_launched) = 1 /\ d_launched[1].status = "exit_nonzero"

\* what the latest line read decides when `c` is taken as its first character
Decided(c) ==
    IF c = None \/ c \in {Some("y"), Some("Y")}
    THEN d_pc = "launch" \/ (d_pc = "done" /\ Len(d_launched) = 1)
    ELSE IF c \in {Some("n"), Some("N")}
    THEN d_pc = "done" /\ d_launched = <<>>
    ELSE d_pc = "prompt"
LastRead == d_lines[Len(d_lines)]
\* the loop went round for every line but the latest
WentRound(c(_)) ==
    \A i \in 1..(Len(d_lines) - 1) :
        /\ d_lines[i] # None
        /\ c(d_lines[i][1]) \notin {None, Some("y"), Some("Y"), Some("n"), Some("N")}

TypedFirst(line) ==
    IF line \in {<<>>, <<"\n">>} THEN None ELSE Some(line[1])
\* C22 as stated: the first character of the line as typed decides, an empty
\* line launches
PromptFirstCharacter ==
    (d_args.ask = "Yes" /\ d_lines # <<>>)
        => /\ LastRead = None => (d_pc = "done" /\ d_launched = <<>>)
           /\ LastRead # None => Decided(TypedFirst(LastRead[1]))
           /\ Len(d_launched) <= 1

FirstNonBlank(line) ==
    LET t == trim_start(line) IN IF t = <<>> THEN None ELSE Some(t[1])
\* C22: the first character after the leading white space of the line
\* decides: y or Y, or a line of white space only, launches the diff, n or N
\* skips it, another character makes the loop go round; a read error skips;
\* the loop ends on a deciding line only and the diff is launched at most
\* once
PromptFirstNonBlank ==
    /\ (d_args.ask = "Yes" /\ d_lines # <<>>)
           => /\ LastRead = None => (d_pc = "done" /\ d_launched = <<>>)
              /\ LastRead # None => Decided(FirstNonBlank(LastRead[1]))
              /\ WentRound(FirstNonBlank)
    /\ d_pc # "idle" => Len(d_launched) <= 1
    /\ (d_pc = "prompt" /\ d_lines = <<>>) => d_args.ask = "Yes"

PromptFirstNonBlankWitness ==
    /\ d_args.ask = "Yes" /\ d_pc = "done" /\ d_launched = <<>>
    /\ d_lines = <<Some(<<"q", "\n">>), Some(<<" ", "n", "\n">>)>>

\* C32: when the main thread is between two samples or past the last one,
\* the child of every sample that got one has been waited on.
ChildReapedBeforeNext ==
    t_pc \in {"loop", "drop", "join", "done"} =>
        \A i \in 1..Len(corpus) : procs[i] # "spawned"

WriteFailed(i) ==
    \E k \in 1..Len(reported) :
        reported[k].fix = i /\ reported[k].error = "write stdin"

\* C33: the writer thread is gone only when w_sender was dropped, so it is
\* there whenever the main thread sends; a sample whose copy failed has the
\* stdin handle of its child closed while the writer is back at recv or at a
\* later item, and at the end the writer has received every item that was
\* sent, in the order sent.
WriterSurvivesFailedWrite ==
    /\ writer.state = "exited" => ~sender_open
    /\ t_pc = "send" => writer.state # "exited"
    /\ \A i \in 1..Len(corpus) :
         WriteFailed(i) => (~stdin_pipe[i].wopen /\ writer.fix # i)
    /\ t_pc = "done" => w_log = sent

\* the copy for the first sample failed and the writer served the second
WriterSurvivesFailedWriteWitness ==
    /\ t_pc = "done" /\ WriteFailed(1) /\ w_log = <<1, 2>>
    /\ fixture[2] \in {"matched", "mismatch"}

\* ============================================================ visit_files
\* A path is the sequence of its components below the walked directory, a
\* component a sequence of characters.
\* the deepest nesting of visit_files_impl calls the model follows
MaxDepth == 4

SufIn == <<"_", "i", "n", ".", "t", "x", "t">>
SufOut == <<"_", "o", "u", "t", ".", "t", "x", "t">>
SufInWin == <<"_", "i", "n", "_", "w", "i", "n", ".", "t", "x", "t">>
SufOutWin == <<"_", "o", "u", "t", "_", "w", "i", "n", ".", "t", "x", "t">>

\* what lies at a path: a directory, a regular file or a symbolic link with
\* the path it points to; io tells what reading it gives: "elem_err" when
\* the directory iterator returns Err for it, "meta_err" when metadata()
\* fails, "unreadable" when read_dir of the directory fails
Dir == [kind |-> "dir", target |-> <<>>, io |-> "ok"]
Reg == [kind |-> "file", target |-> <<>>, io |-> "ok"]
Link(target) == [kind |-> "link", target |-> target, io |-> "ok"]

\* an allowed and a refused directory, a directory below the first level
\* whose name is not in the list
TreeSubdirs ==
    <<<<"C">>>> :> Dir
    @@ <<<<"C">>, <<"c">> \o SufIn>> :> Reg
    @@ <<<<"C">>, <<"x">>>> :> Dir
    @@ <<<<"C">>, <<"x">>, <<"d">> \o SufOut>> :> Reg
    @@ <<<<"E">>>> :> Dir
    @@ <<<<"E">>, <<"e">> \o SufIn>> :> Reg
    @@ <<<<"r">> \o SufOut>> :> Reg

\* s/c_in.txt and s_c_out.txt, and both line ending families
TreeFlat ==
    <<<<"s">>>> :> Dir
    @@ <<<<"s">>, <<"c">> \o SufIn>> :> Reg
    @@ <<<<"s">>, <<"c">> \o SufInWin>> :> Reg
    @@ <<<<"s", "_", "c">> \o SufOut>> :> Reg
    @@ <<<<"s", "_", "c">> \o SufInWin>> :> Reg

\* links to directories that close a cycle, a link to a file
TreeLinks ==
    <<<<"a">>>> :> Dir
    @@ <<<<"a">>, <<"f">> \o SufIn>> :> Reg
    @@ <<<<"a">>, <<"u", "p">>>> :> Link(<<>>)
    @@ <<<<"l">>>> :> Link(<<<<"a">>>>)
    @@ <<<<"g">> \o SufOut>> :> Link(<<<<"a">>, <<"f">> \o SufIn>>)

\* entries that cannot be read
TreeErrors ==
    <<<<"a">>>> :> Dir
    @@ <<<<"a">>, <<"f">> \o SufIn>> :> [Reg EXCEPT !.io = "meta_err"]
    @@ <<<<"a">>, <<"g">> \o SufOut>> :> [Reg EXCEPT !.io = "elem_err"]
    @@ <<<<"a">>, <<"u">>>> :> [Dir EXCEPT !.io = "unreadable"]
    @@ <<<<"h">> \o SufIn>> :> Reg

Trees == {TreeSubdirs, TreeFlat, TreeLinks, TreeErrors}

\* the visitor: the closure of collect_sample_files with its target_os and
\* sample_subdirs, or any other FnMut(TraversalEvent) -> TraversalResponse
Visitors ==
    [visitor : {"collect"}, os : {"Unix", "Windows"}, subdirs : {{}, {<<"C">>}}]
        \cup [visitor : {"any"}, os : {"Unix"}, subdirs : {{}}]

\* the node at a path; the walked directory itself is a readable directory
NodeAt(t, path) == IF path = <<>> THEN Dir ELSE t[path]

\* the names read_dir lists for the directory at `real`
Listing(t, real) ==
    {q[Len(q)] : q \in {q \in DOMAIN t : /\ Len(q) = Len(real) + 1
                                        /\ SubSeq(q, 1, Len(real)) = real}}

\* fs::metadata, which follows symbolic links
metadata_follow(t, node) ==
    IF node.kind = "link"
    THEN [is_symlink |-> FALSE,
          is_dir |-> NodeAt(t, node.target).kind = "dir",
          is_file |-> NodeAt(t, node.target).kind = "file"]
    ELSE [is_symlink |-> FALSE, is_dir |-> node.kind = "dir",
          is_file |-> node.kind = "file"]
\* DirEntry::metadata, which does not follow symbolic links: for a link
\* is_symlink() holds and neither is_dir() nor is_file()
metadata(t, node) ==
    [is_symlink |-> node.kind = "link", is_dir |-> node.kind = "dir",
     is_file |-> node.kind = "file"]

\* a frame of visit_files_impl: the directory as the code names it, the
\* directory it is on disk, the entries the iterator has not returned yet,
\* and whether the loop was left with return Stop
Frame(t, dir, real) ==
    [dir |-> dir, real |-> real, todo |-> Listing(t, real), stopped |-> FALSE]

\* --------------------------------------------- collect_sample_files closure
\* the test at every level, not only the first
filtered_any_depth(d, subdirs, name) == subdirs # {} /\ name \notin subdirs
\* depth == 0 && !sample_subdirs.is_empty() && the name is not in the list
filtered(d, subdirs, name) == d = 0 /\ subdirs # {} /\ name \notin subdirs

\* name.strip_suffix(suffix)
strip_suffix(name, suffix) ==
    IF ends_with(name, suffix) THEN Some(SubSeq(name, 1, Len(name) - Len(suffix)))
    ELSE None

\* the if-else chain on the file name: the stem, the line endings and
\* whether the file is an input; None for a name with no known suffix
classify(name) ==
    IF strip_suffix(name, SufIn) # None
    THEN Some([stem |-> strip_suffix(name, SufIn)[1], os |-> "Unix", input |-> TRUE])
    ELSE IF strip_suffix(name, SufOut) # None
    THEN Some([stem |-> strip_suffix(name, SufOut)[1], os |-> "Unix", input |-> FALSE])
    ELSE IF strip_suffix(name, SufInWin) # None
    THEN Some([stem |-> strip_suffix(name, SufInWin)[1], os |-> "Windows", input |-> TRUE])
    ELSE IF strip_suffix(name, SufOutWin) # None
    THEN Some([stem |-> strip_suffix(name, SufOutWin)[1], os |-> "Windows",
               input |-> FALSE])
    ELSE None

\* relative.parent().unwrap().join(name).to_str().unwrap().replace('/', "_")
RECURSIVE flat_key(_, _)
flat_key(parent, name) ==
    IF parent = <<>> THEN name
    ELSE Head(parent) \o <<"_">> \o flat_key(Tail(parent), name)

NoSampleFiles == [input |-> None, output |-> None]

\* the closure called with File(file): the map and the duplicates after it
add_file(m, d, os, file) ==
    LET c == classify(file[Len(file)])
    IN  IF c = None \/ c[1].os # os THEN [found |-> m, dups |-> d]
        ELSE LET key == flat_key(SubSeq(file, 1, Len(file) - 1), c[1].stem)
                 entry == IF key \in DOMAIN m THEN m[key] ELSE NoSampleFiles
             IN  IF c[1].input
                 THEN [found |-> insert(m, key, [entry EXCEPT !.input = Some(file)]),
                       dups |-> IF entry.input # None THEN Append(d, file) ELSE d]
                 ELSE [found |-> insert(m, key, [entry EXCEPT !.output = Some(file)]),
                       dups |-> IF entry.output # None THEN Append(d, file) ELSE d]

\* depth += 1 placed before the test of the list
entered_before_test(d, skip) == d + 1
\* the closure's depth after EnterDirectory: return Skip leaves it as it
\* was, depth += 1 comes after the test
entered(d, skip) == IF skip THEN d ELSE d + 1

\* fun(event): the responses the visitor can give, each with the closure's
\* state after it
Visit(ev, path) ==
    IF w_cfg.visitor = "any"
    THEN {[resp |-> r, depth |-> depth, found |-> found, dups |-> dups] :
              r \in {"Continue", "Skip", "Stop"}}
    ELSE CASE ev = "EnterDirectory" ->
                  LET skip == filtered(depth, w_cfg.subdirs, path[Len(path)])
                  IN  {[resp |-> IF skip THEN "Skip" ELSE "Continue",
                        depth |-> entered(depth, skip), found |-> found,
                        dups |-> dups]}
           [] ev = "LeaveDirectory" ->
                  {[resp |-> "Continue", depth |-> depth - 1, found |-> found,
                    dups |-> dups]}
           [] ev = "File" ->
                  LET a == add_file(found, dups, w_cfg.os, path)
                  IN  {[resp |-> "Continue", depth |-> depth, found |-> a.found,
                        dups |-> a.dups]}

\* the visitor was called and answered v
Called(ev, path, v) ==
    /\ events' = Append(events, [ev |-> ev, path |-> path, resp |-> v.resp])
    /\ depth' = v.depth /\ found' = v.found /\ dups' = v.dups

Top == stack[Len(stack)]
SetTop(f) == [stack EXCEPT ![Len(stack)] = f]

\* one round of `for element in iter`
WalkEntry ==
    /\ w_pc = "walk" /\ ~Top.stopped /\ Top.todo # {}
    /\ \E name \in Top.todo :
        LET rest == [Top EXCEPT !.todo = Top.todo \ {name}]
            path == Top.dir \o <<name>>
            node == tree[Top.real \o <<name>>]
            ty == metadata(tree, node)
        IN  IF node.io \in {"elem_err", "meta_err"}
            THEN \* continue, or report_io_error("DirEntry::metadata", ..)
                 /\ stack' = SetTop(rest) /\ w_pc' = w_pc
                 /\ UNCHANGED <<events, depth, found, dups>>
            ELSE IF ty.is_symlink /\ ty.is_dir
            THEN /\ stack' = SetTop(rest) /\ w_pc' = w_pc
                 /\ UNCHANGED <<events, depth, found, dups>>
            ELSE IF ty.is_dir
            THEN \E v \in Visit("EnterDirectory", path) :
                   /\ Called("EnterDirectory", path, v)
                   /\ CASE v.resp = "Continue" ->
                             LET real == IF node.kind = "link" THEN node.target
                                         ELSE Top.real \o <<name>>
                             IN  IF NodeAt(tree, real).io = "unreadable"
                                 THEN \* fs::read_dir(dir).unwrap()
                                      stack' = SetTop(rest) /\ w_pc' = "panic"
                                 ELSE /\ Len(stack) < MaxDepth
                                      /\ stack' = Append(SetTop(rest),
                                                         Frame(tree, path, real))
                                      /\ w_pc' = w_pc
                        [] v.resp = "Skip" -> stack' = SetTop(rest) /\ w_pc' = w_pc
                        [] v.resp = "Stop" ->
                             /\ stack' = SetTop([rest EXCEPT !.stopped = TRUE])
                             /\ w_pc' = w_pc
            ELSE IF ty.is_file
            THEN \E v \in Visit("File", path) :
                   /\ Called("File", path, v)
                   /\ stack' = SetTop([rest EXCEPT !.stopped = (v.resp = "Stop")])
                   /\ w_pc' = w_pc
            ELSE /\ stack' = SetTop(rest) /\ w_pc' = w_pc
                 /\ UNCHANGED <<events, depth, found, dups>>
    /\ UNCHANGED <<tree, w_cfg>>

\* visit_files_impl returns; its caller drops the value it returns, calls
\* fun(LeaveDirectory) and returns Stop itself when that answers Stop
WalkReturn ==
    /\ w_pc = "walk" /\ (Top.stopped \/ Top.todo = {})
    /\ IF Len(stack) = 1
       THEN /\ stack' = <<>> /\ w_pc' = "done"
            /\ UNCHANGED <<events, depth, found, dups>>
       ELSE \E v \in Visit("LeaveDirectory", <<>>) :
              /\ Called("LeaveDirectory", <<>>, v)
              /\ stack' = [SubSeq(stack, 1, Len(stack) - 1)
                               EXCEPT ![Len(stack) - 1].stopped = (v.resp = "Stop")]
              /\ w_pc' = w_pc
    /\ UNCHANGED <<tree, w_cfg>>

InitWalk ==
    /\ CacheIdle /\ TestIdle /\ SamplesIdle /\ HashIdle /\ DiffIdle
    /\ tree \in Trees /\ w_cfg \in Visitors
    /\ w_pc = "walk" /\ stack = <<Frame(tree, <<>>, <<>>)>>
    /\ events = <<>> /\ depth = 0 /\ found = <<>> /\ dups = <<>>

not_walk_vars == <<cache_vars, test_vars, samples_vars, hash_vars, diff_vars>>

NextWalk ==
    \/ WalkEntry /\ UNCHANGED not_walk_vars
    \/ WalkReturn /\ UNCHANGED not_walk_vars

SpecWalk == InitWalk /\ [][NextWalk]_vars

\* the walk is one sequential call: it goes on as long as it can
SpecWalkFair == SpecWalk /\ WF_vars(NextWalk)

\* ------------------------------------------------------------------ claims
Parent(path) == SubSeq(path, 1, Len(path) - 1)
Kind(path) == classify(path[Len(path)])

\* the files the closure was called with that belong to the configured
\* line ending family
FamilyFiles ==
    {events[i].path : i \in {i \in 1..Len(events) :
        /\ events[i].ev = "File" /\ Kind(events[i].path) # None
        /\ Kind(events[i].path)[1].os = w_cfg.os}}

KeyOf(file) == flat_key(Parent(file), Kind(file)[1].stem)

\* C27: when collect_sample_files has walked the directory, every fixture
\* holds only files of the configured line ending family, its input and its
\* output lie in the same directory and have the same name once the suffix
\* is stripped, and two inputs or two outputs of one flattened name were
\* reported as duplicates.
FixturePairsSameDirectory ==
    (w_pc = "done" /\ w_cfg.visitor = "collect") =>
        /\ \A key \in DOMAIN found :
             LET e == found[key]
             IN  /\ e.input # None => (e.input[1] \in FamilyFiles
                                       /\ Kind(e.input[1])[1].input)
                 /\ e.output # None => (e.output[1] \in FamilyFiles
                                        /\ ~Kind(e.output[1])[1].input)
                 /\ (e.input # None /\ e.output # None) =>
                        /\ Parent(e.input[1]) = Parent(e.output[1])
                        /\ Kind(e.input[1])[1].stem = Kind(e.output[1])[1].stem
        /\ \A f, g \in FamilyFiles :
             (f # g /\ KeyOf(f) = KeyOf(g)
              /\ Kind(f)[1].input = Kind(g)[1].input) => dups # <<>>

\* the events that carry a path
PathEvents == {i \in 1..Len(events) : events[i].ev \in {"EnterDirectory", "File"}}
Visited == {events[i].path : i \in PathEvents}

\* every directory above the path is a readable directory, no link
Plain(path) ==
    \A n \in 1..(Len(path) - 1) :
        LET above == tree[SubSeq(path, 1, n)]
        IN  above.kind = "dir" /\ above.io = "ok"

\* C28: with a list of subdirectory names configured, collect_sample_files
\* answers Skip exactly for the first-level directories that are not in the
\* list, so nothing below such a directory is visited and no deeper directory
\* is ever skipped, and when the walk is done every readable directory and
\* file below a first-level directory of the list has been visited.
AllowListFirstLevelOnly ==
    (w_cfg.visitor = "collect" /\ w_cfg.subdirs # {}) =>
        /\ \A i \in PathEvents :
             /\ events[i].ev = "EnterDirectory" =>
                    (events[i].resp = "Skip"
                        <=> (Len(events[i].path) = 1
                             /\ events[i].path[1] \notin w_cfg.subdirs))
             /\ Len(events[i].path) > 1 => events[i].path[1] \in w_cfg.subdirs
        /\ w_pc = "done" =>
             \A path \in DOMAIN tree :
                 (/\ path[1] \in w_cfg.subdirs /\ Plain(path)
                  /\ tree[path].kind \in {"dir", "file"}
                  /\ tree[path].io \in {"ok", "unreadable"}) => path \in Visited

AllowListFirstLevelOnlyWitness ==
    /\ w_pc = "done" /\ w_cfg.visitor = "collect" /\ w_cfg.subdirs = {<<"C">>}
    /\ \E i, j \in PathEvents :
         /\ events[i].path = <<<<"C">>, <<"x">>>> /\ events[i].resp = "Continue"
         /\ events[j].path = <<<<"E">>>> /\ events[j].resp = "Skip"
    /\ <<<<"C">>, <<"x">>, <<"d">> \o SufOut>> \in Visited

\* no frame and no event lies at or below a symbolic link, and no directory
\* and no file is delivered twice
NoSymlinkCrossed ==
    /\ \A k \in 1..Len(stack) :
         /\ stack[k].dir = stack[k].real
         /\ NodeAt(tree, stack[k].dir).kind = "dir" /\ Plain(stack[k].dir)
    /\ \A i \in PathEvents :
         /\ tree[events[i].path].kind # "link" /\ Plain(events[i].path)
         /\ \A j \in PathEvents : events[i].path = events[j].path => i = j
    /\ w_pc = "panic" => \E path \in DOMAIN tree : tree[path].io = "unreadable"

\* C29: visit_files_impl never enters an entry that is a symbolic link and
\* delivers no path at or below one, it delivers every directory and every
\* file at most once, and the walk comes to its end (or to the panic of
\* read_dir on an unreadable directory), also on a tree whose links form a
\* cycle.
WalkTerminates == []NoSymlinkCrossed /\ <>(w_pc \in {"done", "panic"})

WalkTerminatesWitness ==
    /\ w_pc = "done" /\ tree = TreeLinks /\ Len(events) = 3
    /\ \A i \in 1..Len(events) : events[i].resp = "Continue"
    /\ <<<<"a">>, <<"f">> \o SufIn>> \in Visited

\* C30: after an event the visitor answered with Stop, the only events still
\* delivered are LeaveDirectory events.
StopEndsTraversal ==
    \A i, j \in 1..Len(events) :
        (i < j /\ events[i].resp = "Stop") => events[j].ev = "LeaveDirectory"

\* the directories entered and not yet left after the first n events
Opens(n) ==
    Cardinality({i \in 1..n : events[i].ev = "EnterDirectory"
                              /\ events[i].resp = "Continue"})
        - Cardinality({i \in 1..n : events[i].ev = "LeaveDirectory"})

====
